---------------------------- MODULE Spec2Model ----------------------------
(***************************************************************************)
(* A model of yavdlt's media container pipeline: the EBML variable-length  *)
(* integer codec, the Matroska element writer, the Matroska builder        *)
(* (mcio_matroska.py) and the per-video loop of the downloader             *)
(* (yavdlt.py).                                                            *)
(*                                                                         *)
(* Python integers are unbounded.  Values that can exceed 31 bits (VInt    *)
(* values up to 2^56, the 2^64-1 placeholder of a cue position) are kept   *)
(* as a "big": the big-endian sequence of their bytes without leading zero *)
(* bytes (<<>> is zero), with a sign where the code handles negative       *)
(* values.                                                                 *)
(***************************************************************************)
EXTENDS Integers, Sequences, FiniteSets, TLC

VARIABLES
    el,         \* element writer run: the element object
    el_depth,   \* its nesting depth
    el_pc,      \* "built", "written" or the error raised
    el_out,     \* the bytes write_to_file wrote
    vi_pc,      \* VInt codec run: "value", "encoded", "decoded", "bytes", "parsed", "reencoded"
    vi_signed,  \* the VInt class: TRUE for MatroskaSVInt, FALSE for MatroskaVInt
    vi_val,     \* the integer handed to the constructor
    vi_bd,      \* the byte string: result of get_bindata, or the self-test input
    vi_dec,     \* result of build_from_bindata
    vi_bd2,     \* result of get_bindata on the decoded value
    mk_cfg,     \* MatroskaBuilder: constructor arguments and class attributes
    mk_adds,    \* number of add_track / add_track_by_entry calls made
    mk_tracks,  \* self.tracks.sub
    mk_frames,  \* self.frames, a dict kept as the sequence of its items
    mk_pc,      \* "building", "written" or the exception that was raised
    mk_out,     \* what write_to_file produced: elements, offsets, file bytes
    vid_i,      \* main: index of the video the loop is at
    vid_res,    \* main: what fetch_data does for each video of the list
    vids_failed, \* main: the list vids_failed
    vid_log,    \* main: the records handed to log()
    main_pc,    \* main: "loop" inside main, "exit" once the process ended
    exit_status, \* main: the exit status of the process, None until it ends
    fd_cfg,     \* fetch_data: make_mkv, drop_tt, the data type mask, the files found
    fd_pc,      \* fetch_data: the statement it is at, "returned", "raised" or "killed"
    fd_fs,      \* fetch_data: the files on disk, "none", "partial" or "complete"
    fd_open,    \* fetch_data: the names of the files that are open
    fd_q,       \* fetch_data: the subtitle files still to write in this step
    fd_ret,     \* fetch_data: the statement that follows the subtitle files
    fd_err,     \* fetch_data: the exception that left it, "" while there is none
    dl_cfg,     \* fetch_video: the local file found, the remote data, the server
    dl_pc,      \* fetch_video: the statement it is at, "returned" or "raised"
    dl_file,    \* fetch_video: the bytes of the local temporary file
    dl_pos,     \* fetch_video: the position of the file object f
    dl_req,     \* fetch_video: off_start, prefix_data and the Range header sent
    dl_res,     \* fetch_video: the bytes of the response not read yet
    dl_clg,     \* fetch_video: cl_g
    vo_pc,      \* new_by_size run: "target", "made", "written" or the error raised
    vo_full_size, \* new_by_size: the argument full_size
    vo_void,    \* new_by_size: the Void element returned
    vo_out,     \* new_by_size: the bytes the Void's write_to_file wrote
    vo_bd_sz,   \* new_by_size: bd_sz, the body size the search is at
    vo_bd_sz_set, \* new_by_size: bd_sz_set, the body sizes tried
    fl_cfg,     \* FLVReader: how the bytes of the file were put together
    fl_f,       \* FLVReader: the bytes of the file self.f
    fl_pc,      \* FLVReader: "header", "tags", "parsed" or the exception raised
    fl_pos,     \* FLVReader: the position of the file object
    fl_off,     \* parse_tags: off, the offset of the tag it is at
    fl_n,       \* make_mkvb: the number of tags parse_tags has yielded
    fl_ad,      \* make_mkvb: the audio stream dict ad
    fl_vd,      \* make_mkvb: the video stream dict vd
    mp_trak,    \* MovBoxTrack: the sample tables of the track
    mp_loc,     \* get_sample_data: the local variables of the generator
    mp_out,     \* get_sample_data: the samples yielded so far
    mp_pc,      \* get_sample_data: "created", "yielded", "done" or the exception raised
    st_styles,  \* ASSSubSet: self.styles, kept as the sequence of its items
    st_style_i, \* ASSSubSet: self._style_i
    st_objs,    \* ASSSubSet: the number of style objects make_style has built
    st_calls    \* ASSSubSet: the make_style calls made, with what each returned

vintVars == <<vi_pc, vi_signed, vi_val, vi_bd, vi_dec, vi_bd2>>

elemVars == <<el, el_depth, el_pc, el_out>>

muxVars == <<mk_cfg, mk_adds, mk_tracks, mk_frames, mk_pc, mk_out>>

mainVars == <<vid_i, vid_res, vids_failed, vid_log, main_pc, exit_status>>

fetchVars == <<fd_cfg, fd_pc, fd_fs, fd_open, fd_q, fd_ret, fd_err>>

dlVars == <<dl_cfg, dl_pc, dl_file, dl_pos, dl_req, dl_res, dl_clg>>

voidVars == <<vo_pc, vo_full_size, vo_void, vo_out, vo_bd_sz, vo_bd_sz_set>>

\* The variables of the runs of single operations
flvVars == <<fl_cfg, fl_f, fl_pc, fl_pos, fl_off, fl_n, fl_ad, fl_vd>>

mp4Vars == <<mp_trak, mp_loc, mp_out, mp_pc>>

assVars == <<st_styles, st_style_i, st_objs, st_calls>>

extVars == <<mp4Vars, assVars>>

auxVars == <<voidVars, flvVars, extVars>>

moreVars == <<fetchVars, dlVars, auxVars>>

vars == <<vintVars, elemVars, muxVars, mainVars, moreVars>>

(* ------------------------------------------------------------------ *)
(* Bounds of the model                                                 *)
(* ------------------------------------------------------------------ *)

\* VInt sample values lie within EdgeSpan of every length-class boundary.
EdgeSpan == 2

\* Greatest nesting depth of the element trees handed to the writer
MaxDepth == 2

\* Greatest number of tracks added to a builder that writes a file
MaxTracks == 2

\* Greatest number of frames of a track in the lacing runs
MaxFrames == 3

\* Greatest number of tracks added in the track list runs
MaxAdds == 3

\* Greatest number of videos on the list of a run of main
MaxVids == 3

\* Void.new_by_size is run for every full_size up to MaxVoid
MaxVoid == 200

\* Greatest number of tags of an FLV file
MaxTags == 2

\* Greatest number of bytes by which a script value overruns its tag body
MaxCut == 2

\* The bytes of the remote video beyond the 128 that a resume compares
DlSpan == 3

\* Greatest number of make_style calls on a subtitle set
MaxCalls == 4

(* ------------------------------------------------------------------ *)
(* Unbounded integers                                                  *)
(* ------------------------------------------------------------------ *)

Max2(a, b) == IF a >= b THEN a ELSE b

Min2(a, b) == IF a <= b THEN a ELSE b

Front(s) == SubSeq(s, 1, Len(s) - 1)

Last(s) == s[Len(s)]

\* A Python list or bytes object: the sequence with its elements evaluated
List(f) == f \o <<>>

Rep(b, n) == List([i \in 1..n |-> b])

RECURSIVE Pow(_, _)
Pow(b, n) == IF n = 0 THEN 1 ELSE b * Pow(b, n - 1)

RECURSIVE Strip(_)
Strip(s) == IF s # <<>> /\ s[1] = 0 THEN Strip(Tail(s)) ELSE s

RECURSIVE ToBig(_)
ToBig(n) == IF n = 0 THEN <<>> ELSE ToBig(n \div 256) \o <<n % 256>>

RECURSIVE FromBig(_)
FromBig(b) == IF b = <<>> THEN 0 ELSE FromBig(Front(b)) * 256 + Last(b)

\* b as exactly n bytes, big-endian (the low n bytes when b is longer)
PadTo(b, n) ==
    IF Len(b) >= n THEN SubSeq(b, Len(b) - n + 1, Len(b))
    ELSE Rep(0, n - Len(b)) \o b

RECURSIVE SeqLess(_, _)
SeqLess(a, b) ==
    IF a = <<>> THEN FALSE
    ELSE IF a[1] # b[1] THEN a[1] < b[1]
    ELSE SeqLess(Tail(a), Tail(b))

BigLess(a, b) ==
    IF Len(a) # Len(b) THEN Len(a) < Len(b) ELSE SeqLess(a, b)

BigLeq(a, b) == a = b \/ BigLess(a, b)

\* a + b + c on equally long byte strings; the result has one more byte
RECURSIVE AddBytes(_, _, _)
AddBytes(a, b, c) ==
    IF a = <<>> THEN <<c>>
    ELSE LET s == Last(a) + Last(b) + c
         IN  AddBytes(Front(a), Front(b), s \div 256) \o <<s % 256>>

BigAdd(a, b) ==
    LET n == Max2(Len(a), Len(b))
    IN  Strip(AddBytes(PadTo(a, n), PadTo(b, n), 0))

\* a - b - c on equally long byte strings, for a >= b + c
RECURSIVE SubBytes(_, _, _)
SubBytes(a, b, c) ==
    IF a = <<>> THEN <<>>
    ELSE LET d == Last(a) - Last(b) - c
         IN  SubBytes(Front(a), Front(b), IF d < 0 THEN 1 ELSE 0)
                 \o <<IF d < 0 THEN d + 256 ELSE d>>

BigSub(a, b) == Strip(SubBytes(a, PadTo(b, Len(a)), 0))

\* 2^k - 1
Pow2M1(k) ==
    (IF k % 8 = 0 THEN <<>> ELSE <<Pow(2, k % 8) - 1>>) \o Rep(255, k \div 8)

\* 2^k
Pow2(k) == <<Pow(2, k % 8)>> \o Rep(0, k \div 8)

\* A Python int: sign and magnitude
PyInt(n) == [neg |-> n < 0, mag |-> ToBig(IF n < 0 THEN 0 - n ELSE n)]

PyBig(neg, mag) == [neg |-> neg /\ mag # <<>>, mag |-> mag]

PyVal(x) == IF x.neg THEN 0 - FromBig(x.mag) ELSE FromBig(x.mag)

PyNeg(x) == PyBig(~x.neg, x.mag)

PyAdd(x, y) ==
    IF x.neg = y.neg THEN PyBig(x.neg, BigAdd(x.mag, y.mag))
    ELSE IF BigLeq(y.mag, x.mag) THEN PyBig(x.neg, BigSub(x.mag, y.mag))
    ELSE PyBig(y.neg, BigSub(y.mag, x.mag))

PySub(x, y) == PyAdd(x, PyNeg(y))

PyLeq(x, y) ==
    IF x.neg # y.neg THEN x.neg
    ELSE IF x.neg THEN BigLeq(y.mag, x.mag)
    ELSE BigLeq(x.mag, y.mag)

\* int.bit_length() of a value below 2^31
RECURSIVE bit_length(_)
bit_length(n) ==
    IF n = 0 THEN 0
    ELSE IF n < 0 THEN bit_length(0 - n)
    ELSE 1 + bit_length(n \div 2)

\* int.bit_length() of an unbounded value
py_bit_length(x) ==
    IF x.mag = <<>> THEN 0 ELSE 8 * (Len(x.mag) - 1) + bit_length(x.mag[1])

\* math.ceil(a / b) for a >= 0, b > 0
CeilDiv(a, b) == (a + b - 1) \div b

(* ------------------------------------------------------------------ *)
(* EBML variable-length integers                                       *)
(* ------------------------------------------------------------------ *)

RECURSIVE vint_size_loop(_, _)
vint_size_loop(rv, payload_len) ==
    IF rv * 8 - rv < payload_len THEN vint_size_loop(rv + 1, payload_len)
    ELSE rv

\* _calc_vint_size that does not set the all-ones payload aside
_calc_vint_size_noreserve(i, signed) ==
    LET s == IF signed THEN 1 ELSE 0
    IN  vint_size_loop(1, py_bit_length(i) + s)

\* _calc_vint_size(i, signed); i is a Python int
_calc_vint_size(i, signed) ==
    LET s == IF signed THEN 1 ELSE 0
        payload_len == py_bit_length(PyAdd(i, PyInt(1 - s))) + s
    IN  vint_size_loop(1, payload_len)

\* MatroskaVInt.val_lim and MatroskaSVInt.val_lim
val_lim_VInt == PyBig(FALSE, BigSub(Pow2(56), <<2>>))

val_lim_SVInt == PyBig(FALSE, Pow2M1(48))

\* MatroskaVInt.__init__ / MatroskaSVInt.__init__: the domain test
vint_in_domain(x, signed) ==
    IF signed THEN PyLeq(PyNeg(val_lim_SVInt), x) /\ PyLeq(x, val_lim_SVInt)
    ELSE PyLeq(x, val_lim_VInt)

\* b | m for a byte b and a power of two m
BitOr(b, m) == IF (b \div m) % 2 = 1 THEN b ELSE b + m

\* A write of a value outside 0..255 into a bytearray raises ValueError.
ValueError == <<-1>>

\* get_bindata with the midpoint 2^(databits-1) as the bias of the signed
\* form, one more than the code adds
get_bindata_midpoint(val, size, signed) ==
    LET prefix_bytes == (size - 1) \div 8
        prefix_bits  == (size - 1) % 8
        databits == 8 * size - 8 * prefix_bytes - prefix_bits - 1
        v == IF signed THEN PyAdd(val, PyBig(FALSE, Pow2(databits - 1)))
             ELSE val
        n == size - prefix_bytes
        body == PadTo(v.mag, n)
    IN  IF v.neg \/ Len(v.mag) > n THEN ValueError
        ELSE Rep(0, prefix_bytes)
                 \o <<BitOr(body[1], Pow(2, 7 - prefix_bits))>>
                 \o Tail(body)

\* EBMLVInt.get_bindata for the value val with size attribute size
get_bindata(val, size, signed) ==
    LET prefix_bytes == (size - 1) \div 8
        prefix_bits  == (size - 1) % 8
        databits == 8 * size - 8 * prefix_bytes - prefix_bits - 1
        v == IF signed THEN PyAdd(val, PyBig(FALSE, Pow2M1(databits - 1)))
             ELSE val
        n == size - prefix_bytes
        body == PadTo(v.mag, n)
    IN  IF v.neg \/ Len(v.mag) > n THEN ValueError
        ELSE Rep(0, prefix_bytes)
                 \o <<BitOr(body[1], Pow(2, 7 - prefix_bits))>>
                 \o Tail(body)

\* EBMLVInt.lt_sbit
lt_sbit(b) == bit_length(b) - 1

\* EBMLVInt.lt_prefix_reserved
lt_prefix_reserved(b) == \E k \in 0..8 : b + 1 = Pow(2, k)

RECURSIVE zero_prefix(_)
zero_prefix(bd) ==
    IF bd # <<>> /\ bd[1] = 0 THEN 1 + zero_prefix(Tail(bd)) ELSE 0

\* EBMLVInt.build_from_bindata: (value, length), or the error raised
build_from_bindata(bd, signed) ==
    LET idx == zero_prefix(bd)
    IN  IF idx >= Len(bd) THEN [err |-> "IndexError", val |-> PyInt(0), len |-> 0]
        ELSE
        LET b0 == bd[idx + 1]
            sbits == lt_sbit(b0)
            prefix_val == b0 % Pow(2, sbits)
            l == 8 * idx + 7 - sbits
            bid == SubSeq(bd, idx + 2, Min2(l + 1, Len(bd)))
            ival == PyBig(FALSE, Strip(<<prefix_val>> \o bid))
            sval == IF signed
                    THEN PySub(ival, PyBig(FALSE, Pow2M1(sbits + l * 8 - 1)))
                    ELSE ival
        IN  IF idx + l >= Len(bd)
            THEN [err |-> "IndexError", val |-> PyInt(0), len |-> 0]
            ELSE IF lt_prefix_reserved(b0) /\ bid = Rep(255, l)
            THEN [err |-> "EBMLError", val |-> PyInt(0), len |-> 0]
            ELSE IF ~vint_in_domain(sval, signed)
            THEN [err |-> "MatroskaError", val |-> sval, len |-> 0]
            ELSE [err |-> "", val |-> sval, len |-> l + 1]

(* ------------------------------------------------------------------ *)
(* EBML / Matroska elements                                            *)
(* ------------------------------------------------------------------ *)

\* The "type" class attribute of the element classes
ID ==
    [EBMLHeader |-> 172351395, Segment |-> 139690087, Info |-> 88713574,
     Cluster |-> 256095861, BlockGroup |-> 32, Tracks |-> 106212971,
     TrackEntry |-> 46, Video |-> 96, Audio |-> 97, Cues |-> 206814059,
     CuePoint |-> 59, CueTrackPositions |-> 55, Void |-> 108,
     SegmentUID |-> 13220, Block |-> 33, SimpleBlock |-> 35,
     CodecPrivate |-> 9122, DocType |-> 642, DocTypeVersion |-> 647,
     DocTypeReadVersion |-> 645, PrevSize |-> 43, FlagLacing |-> 28,
     CueClusterPosition |-> 113, CueTime |-> 51, CueTrack |-> 119,
     CueBlockNumber |-> 4984, TimecodeScale |-> 710577, Timecode |-> 103,
     TrackNumber |-> 87, TrackUID |-> 13253, TrackType |-> 3,
     FlagDefault |-> 8, PixelWidth |-> 48, PixelHeight |-> 58,
     Channels |-> 31, BlockDuration |-> 27, DefaultDuration |-> 254851,
     ReferenceBlock |-> 123, DateUTC |-> 1121, Duration |-> 1161,
     SamplingFrequency |-> 53, MuxingApp |-> 3456, Name |-> 4974,
     WritingApp |-> 5953, Title |-> 15273, Lang |-> 177564, Codec |-> 6,
     Seek |-> 3515]

_MATROSKA_LT_XIPH == 1

_MATROSKA_LT_EBML == 2

_MATROSKA_LT_FIXED == 4

\* _MATROSKA_LT_ANY: every lacing type allowed
_MATROSKA_LT_ANY == 7

\* lace_data = None
NoLace == [LT |-> 0, seq |-> <<>>]

\* An element object: its class, its type id and the attributes of its class.
\*   master: sub           uint: uval (a big)     sint: ival
\*   float: ival, fsize    str: sval, codec       bin, void: data
\*   void: bd_size_size (the size attribute of the cached body size VInt)
\*   block: tracknum, timecode, flags, frame_data, lace_data
\* Attributes the builder sets on objects: clust_id (cue cluster position),
\* tc and blockcount (cluster), make_cues and lacing (track entry).
Element ==
    [cls |-> "none", type |-> 0, sub |-> <<>>, uval |-> <<>>, ival |-> 0,
     fsize |-> 0, sval |-> <<>>, codec |-> "", data |-> <<>>,
     bd_size_size |-> 0, tracknum |-> 0, timecode |-> 0, flags |-> 0,
     frame_data |-> <<>>, lace_data |-> NoLace, clust_id |-> 0, tc |-> 0,
     blockcount |-> 0, make_cues |-> FALSE, lacing |-> FALSE]

MatroskaElementMaster(type, sub) ==
    [Element EXCEPT !.cls = "master", !.type = type, !.sub = sub]

\* MatroskaElementUInt; val is a big
MatroskaElementUInt(type, val) ==
    [Element EXCEPT !.cls = "uint", !.type = type, !.uval = val]

MatroskaElementSInt(type, val) ==
    [Element EXCEPT !.cls = "sint", !.type = type, !.ival = val]

MatroskaElementFloat(type, val, body_size) ==
    [Element EXCEPT !.cls = "float", !.type = type, !.ival = val,
                    !.fsize = body_size]

MatroskaElementString(type, val, codec) ==
    [Element EXCEPT !.cls = "str", !.type = type, !.sval = val,
                    !.codec = codec]

MatroskaElementBinary(type, data) ==
    [Element EXCEPT !.cls = "bin", !.type = type, !.data = data]

\* The size attribute of MatroskaVInt(n)
vsize(n) == _calc_vint_size(PyInt(n), FALSE)

\* MatroskaVInt(n).get_bindata()
vbytes(n) == get_bindata(PyInt(n), vsize(n), FALSE)

\* MatroskaElementVoid.__init__: the body size VInt is cached
MatroskaElementVoid(data) ==
    [Element EXCEPT !.cls = "void", !.type = ID.Void, !.data = data,
                    !.bd_size_size = vsize(Len(data))]

\* MatroskaElementBlock_r.__init__ (struct.pack of the sub-header succeeds)
MatroskaElementBlock_r(etype, tracknum, timecode, flags, frame_data, lace_data) ==
    [Element EXCEPT !.cls = "block", !.type = etype, !.tracknum = tracknum,
                    !.timecode = timecode, !.flags = flags,
                    !.frame_data = frame_data, !.lace_data = lace_data]

\* struct.pack('>hB', timecode, flags) raises struct.error outside this range
subhdr_packable(timecode, flags) ==
    /\ timecode >= 0 - 32768 /\ timecode <= 32767
    /\ flags >= 0 /\ flags <= 255

\* DataRefNull(n): a data reference to n bytes of padding
DataRefNull(n) == Rep(0, n)

RECURSIVE Concat(_)
\* b''.join(ss), by halves
Concat(ss) ==
    IF ss = <<>> THEN <<>>
    ELSE IF Len(ss) = 1 THEN ss[1]
    ELSE LET h == Len(ss) \div 2
         IN  Concat(SubSeq(ss, 1, h)) \o Concat(SubSeq(ss, h + 1, Len(ss)))

RECURSIVE SumSeq(_)
\* sum(ns), by halves
SumSeq(ns) ==
    IF ns = <<>> THEN 0
    ELSE IF Len(ns) = 1 THEN ns[1]
    ELSE LET h == Len(ns) \div 2
         IN  SumSeq(SubSeq(ns, 1, h)) + SumSeq(SubSeq(ns, h + 1, Len(ns)))

\* str.encode('utf-8') of one code point
utf8(c) ==
    IF c < 128 THEN <<c>>
    ELSE IF c < 2048 THEN <<192 + (c \div 64), 128 + (c % 64)>>
    ELSE IF c < 65536
    THEN <<224 + (c \div 4096), 128 + ((c \div 64) % 64), 128 + (c % 64)>>
    ELSE <<240 + (c \div 262144), 128 + ((c \div 4096) % 64),
           128 + ((c \div 64) % 64), 128 + (c % 64)>>

\* val.encode(self.codec); an ascii string holds code points below 128 only
str_encode(val, codec) ==
    IF codec = "ascii" THEN val
    ELSE Concat(List([i \in 1..Len(val) |-> utf8(val[i])]))

\* MatroskaElementUInt._get_body_size
uint_body_size(val) ==
    LET n == CeilDiv(py_bit_length(PyBig(FALSE, val)), 8)
    IN  IF n = 0 THEN 1 ELSE n

\* MatroskaElementSInt._get_body_size
sint_body_size(val) ==
    CeilDiv(bit_length(val + (IF val < 0 THEN 1 ELSE 0)) + 1, 8)

\* struct.pack('>q', val)[-n:] for n <= 4: two's complement, big-endian
sint_bytes(val, n) == List([i \in 1..n |-> (val \div Pow(256, n - i)) % 256])

\* struct.pack('>f' / '>d', val) for an integer val in 0 .. 2^20 - 1
float_bytes(val, size) ==
    IF val = 0 THEN Rep(0, size)
    ELSE LET e == bit_length(val) - 1
             frac == (val - Pow(2, e)) * Pow(2, 20 - e)
         IN  IF size = 4
             THEN LET ex == 127 + e
                      m == frac * 8
                  IN  <<ex \div 2, ((ex % 2) * 128) + (m \div 65536),
                        (m \div 256) % 256, m % 256>>
             ELSE LET ex == 1023 + e
                  IN  <<ex \div 16, ((ex % 16) * 16) + (frac \div 65536),
                        (frac \div 256) % 256, frac % 256, 0, 0, 0, 0>>

\* _LaceLengthSeq*.get_size
lace_get_size(ld) ==
    IF ld.LT = _MATROSKA_LT_XIPH
    THEN SumSeq(List([i \in 1..Len(ld.seq) |-> Len(ld.seq[i])]))
    ELSE SumSeq(List([i \in 1..Len(ld.seq) |->
                    _calc_vint_size(PyInt(ld.seq[i]), i > 1)]))

\* _LaceLengthSeq*.write_to_file: the EBML sequence holds one MatroskaVInt
\* followed by MatroskaSVInt deltas
lace_bytes(ld) ==
    IF ld.LT = _MATROSKA_LT_XIPH THEN Concat(ld.seq)
    ELSE Concat(List([i \in 1..Len(ld.seq) |->
                    get_bindata(PyInt(ld.seq[i]),
                                _calc_vint_size(PyInt(ld.seq[i]), i > 1),
                                i > 1)]))

\* _get_lacehdr_size without the byte that holds the frame count
_get_lacehdr_size_nocount(e) ==
    IF e.lace_data.LT = 0 THEN 0 ELSE lace_get_size(e.lace_data)

\* MatroskaElementBlock_r._get_lacehdr_size
_get_lacehdr_size(e) ==
    IF e.lace_data.LT = 0 THEN 0 ELSE lace_get_size(e.lace_data) + 1

\* MatroskaElementBlock_r._get_data_size
_get_data_size(e) ==
    SumSeq(List([i \in 1..Len(e.frame_data) |-> Len(e.frame_data[i])]))

\* MatroskaElementBlock_r._LT_MAP
_LT_MAP(lt) ==
    CASE lt = 0 -> 0
      [] lt = _MATROSKA_LT_XIPH -> 1
      [] lt = _MATROSKA_LT_EBML -> 3
      [] lt = _MATROSKA_LT_FIXED -> 2

\* The _get_body_size of the leaf classes (data_r.get_size() for binaries)
_get_body_size(e) ==
    CASE e.cls = "uint" -> uint_body_size(e.uval)
      [] e.cls = "sint" -> sint_body_size(e.ival)
      [] e.cls = "float" -> e.fsize
      [] e.cls = "str" -> Len(str_encode(e.sval, e.codec))
      [] e.cls \in {"bin", "void"} -> Len(e.data)
      [] e.cls = "block" ->
             3 + vsize(e.tracknum) + _get_lacehdr_size(e) + _get_data_size(e)

RECURSIVE get_size(_)
\* get_size of every element class
get_size(e) ==
    IF e.cls = "master"
    THEN LET bd_size == SumSeq(List([i \in 1..Len(e.sub) |-> get_size(e.sub[i])]))
         IN  vsize(e.type) + vsize(bd_size) + bd_size
    ELSE IF e.cls = "void"
    THEN vsize(e.type) + e.bd_size_size + Len(e.data)
    ELSE LET bd_size == _get_body_size(e)
         IN  vsize(e.type) + vsize(bd_size) + bd_size

\* EBMLElement._write_header: the bytes of the type id and of the size VInt
_write_header(e, size, size_size) ==
    vbytes(e.type) \o get_bindata(PyInt(size), size_size, FALSE)

\* The body bytes a leaf element writes after its header
leaf_body(e) ==
    CASE e.cls = "uint" -> PadTo(e.uval, uint_body_size(e.uval))
      [] e.cls = "sint" -> sint_bytes(e.ival, sint_body_size(e.ival))
      [] e.cls = "float" -> float_bytes(e.ival, e.fsize)
      [] e.cls = "str" -> str_encode(e.sval, e.codec)
      [] e.cls \in {"bin", "void"} -> e.data

\* MatroskaElementBlock_r.write_to_file: the sub-header shdr
block_shdr(e) ==
    LET ld == e.lace_data
        lh == IF ld.LT = 0 THEN <<>> ELSE <<Len(e.frame_data) - 1>>
        flags == ((e.flags \div 8) * 8) + (e.flags % 2) + (_LT_MAP(ld.LT) * 2)
    IN  vbytes(e.tracknum) \o sint_bytes(e.timecode, 2) \o <<flags>> \o lh

\* MatroskaElementBlock_r.write_to_file: sub-header, lace header and frames
block_body(e) ==
    block_shdr(e)
        \o (IF e.lace_data.LT = 0 THEN <<>> ELSE lace_bytes(e.lace_data))
        \o Concat(e.frame_data)

RECURSIVE write_to_file(_)
\* write_to_file of every element class: the bytes written to c.f
write_to_file(e) ==
    IF e.cls = "master"
    THEN LET blen == SumSeq(List([i \in 1..Len(e.sub) |-> get_size(e.sub[i])]))
         IN  _write_header(e, blen, vsize(blen))
                 \o Concat(List([i \in 1..Len(e.sub) |-> write_to_file(e.sub[i])]))
    ELSE IF e.cls = "void"
    THEN _write_header(e, Len(e.data), e.bd_size_size) \o e.data
    ELSE IF e.cls = "block"
    THEN LET ls == IF e.lace_data.LT = 0 THEN 0
                   ELSE _get_lacehdr_size(e) - 1
             bd_sz == Len(block_shdr(e)) + ls + _get_data_size(e)
         IN  _write_header(e, bd_sz, vsize(bd_sz)) \o block_body(e)
    ELSE LET bd_len == _get_body_size(e)
         IN  _write_header(e, bd_len, vsize(bd_len)) \o leaf_body(e)

RECURSIVE write_raises(_)
\* The checks of write_to_file that raise: the output sanity check of a
\* master, an integer body longer than 8 bytes, several frames without
\* lacing, a block body that differs from its announced size
write_raises(e) ==
    IF e.cls = "master"
    THEN \/ \E i \in 1..Len(e.sub) : write_raises(e.sub[i])
         \/ SumSeq(List([i \in 1..Len(e.sub) |-> get_size(e.sub[i])]))
              # SumSeq(List([i \in 1..Len(e.sub) |-> Len(write_to_file(e.sub[i]))]))
    ELSE IF e.cls \in {"uint", "sint"} THEN _get_body_size(e) > 8
    ELSE IF e.cls = "block"
    THEN \/ e.lace_data.LT = 0 /\ Len(e.frame_data) > 1
         \/ Len(block_body(e))
              # Len(block_shdr(e)) + _get_data_size(e)
                  + (IF e.lace_data.LT = 0 THEN 0 ELSE _get_lacehdr_size(e) - 1)
    ELSE FALSE

RECURSIVE void_size_class(_, _, _)
\* MatroskaElementVoid.new_by_size: the first n = (1 << 7i) + i >= full_size
void_size_class(i, n, full_size) ==
    IF n < full_size THEN void_size_class(i + 1, Pow(2, 7 * i) + i, full_size)
    ELSE n

\* new_by_size that never pads the size field
sz_len_pad_never(full_size) == 0

\* MatroskaElementVoid.new_by_size: sz_len_pad
sz_len_pad(full_size) ==
    IF full_size = void_size_class(1, 0, full_size) THEN 1 ELSE 0

RECURSIVE new_by_size_loop(_, _, _)
\* MatroskaElementVoid.new_by_size: the search for the body size
new_by_size_loop(full_size, bd_sz, bd_sz_set) ==
    IF bd_sz \in bd_sz_set THEN [err |-> "MatroskaError", void |-> Element]
    ELSE LET void == MatroskaElementVoid(DataRefNull(bd_sz))
             sz_diff == full_size - get_size(void)
             pad == sz_len_pad(full_size)
         IN  IF 0 <= sz_diff /\ sz_diff <= pad
             THEN IF void.bd_size_size + pad > 8
                  THEN [err |-> "MatroskaError", void |-> Element]
                  ELSE [err |-> "",
                        void |-> [void EXCEPT !.bd_size_size = @ + pad]]
             ELSE new_by_size_loop(full_size, Max2(bd_sz + sz_diff, 0),
                                   bd_sz_set \cup {bd_sz})

\* MatroskaElementVoid.new_by_size
new_by_size(full_size) == new_by_size_loop(full_size, full_size, {})

(* ------------------------------------------------------------------ *)
(* Frames and lacing                                                   *)
(* ------------------------------------------------------------------ *)

\* Python's None where the code expects a number
None == 0 - 1

\* MatroskaFrame.__init__
MatroskaFrame(timecode, flags, tc_dependencies, data_r, dur) ==
    [tc |-> timecode, flags |-> flags, tc_dependencies |-> tc_dependencies,
     data_r |-> data_r, dur |-> dur]

\* MatroskaFrame.is_keyframe
is_keyframe(frame) == frame.tc_dependencies = <<>>

\* [frame.data_r for frame in fl]
frame_data_of(frames) == List([i \in 1..Len(frames) |-> frames[i].data_r])

\* _LaceLengthSeqEBML.build_from_frames
ebml_build_from_frames(frames) ==
    [LT |-> _MATROSKA_LT_EBML,
     seq |-> List([i \in 1..Max2(Len(frames) - 1, 1) |->
                 IF i = 1 THEN Len(frames[1].data_r)
                 ELSE Len(frames[i].data_r) - Len(frames[i - 1].data_r)])]

\* _LaceLengthSeqXiph.build_from_frames
xiph_build_from_frames(frames) ==
    [LT |-> _MATROSKA_LT_XIPH,
     seq |-> List([i \in 1..(Len(frames) - 1) |->
                 Rep(255, Len(frames[i].data_r) \div 255)
                     \o <<Len(frames[i].data_r) % 255>>])]

(* ------------------------------------------------------------------ *)
(* MatroskaBuilder: construction and tracks                            *)
(* ------------------------------------------------------------------ *)

\* A Python dict is the sequence of its items, in insertion order.
dict_has(d, k) == \E i \in 1..Len(d) : d[i].key = k

\* d[k] for a key the dict holds
dict_get(d, k) == d[CHOOSE i \in 1..Len(d) : d[i].key = k].val

\* d[k] = v: a key the dict holds keeps its place
dict_set(d, k, v) ==
    IF dict_has(d, k)
    THEN List([i \in 1..Len(d) |-> IF d[i].key = k THEN [key |-> k, val |-> v]
                              ELSE d[i]])
    ELSE Append(d, [key |-> k, val |-> v])

\* del(d[k])
dict_del(d, k) == SelectSeq(d, LAMBDA it : it.key # k)

\* del(l[i]) for a 0-based index i within the list
list_del(l, i) == SubSeq(l, 1, i) \o SubSeq(l, i + 2, Len(l))

\* MatroskaElementMaster.get_sub_by_cls: the first child of the class, or
\* None (an element of class "none")
get_sub_by_cls(e, type) ==
    IF \E i \in 1..Len(e.sub) : e.sub[i].type = type
    THEN e.sub[CHOOSE i \in 1..Len(e.sub) :
                   /\ e.sub[i].type = type
                   /\ \A j \in 1..(i - 1) : e.sub[j].type # type]
    ELSE Element

\* MatroskaElementMaster.set_sub
set_sub(e, new_e) ==
    IF \E i \in 1..Len(e.sub) : e.sub[i].type = new_e.type
    THEN LET k == CHOOSE i \in 1..Len(e.sub) :
                      /\ e.sub[i].type = new_e.type
                      /\ \A j \in 1..(i - 1) : e.sub[j].type # new_e.type
         IN  [e EXCEPT !.sub = [@ EXCEPT ![k] = new_e]]
    ELSE [e EXCEPT !.sub = Append(@, new_e)]

\* MatroskaElementMaster.remove_subvals_by_cls
remove_subvals_by_cls(e, type) ==
    [e EXCEPT !.sub = SelectSeq(@, LAMBDA x : x.type # type)]

TRACKTYPE_VIDEO == 1

TRACKTYPE_AUDIO == 2

TRACKTYPE_SUB == 17

\* MatroskaElementTrackEntry.get_track_type
get_track_type(t) == FromBig(get_sub_by_cls(t, ID.TrackType).uval)

\* MatroskaElementTrackEntry.get_track_id
get_track_id(t) == FromBig(get_sub_by_cls(t, ID.TrackUID).uval)

\* The TrackNumber of a track entry
get_track_number(t) == FromBig(get_sub_by_cls(t, ID.TrackNumber).uval)

\* MatroskaBuilder.TLEN_CLUSTER
TLEN_CLUSTER == 65536

\* MatroskaBuilder.TOFF_CLUSTER
TOFF_CLUSTER == 32768

\* MatroskaBuilder.bc_lavf_lacing
bc_lavf_lacing == TRUE

\* MatroskaBuilder.frames_per_block_limit
frames_per_block_limit == 32

\* MatroskaElementDate.ut_offset: seconds from 2001-01-01 to 1970-01-01
ut_offset == 0 - 978307200

\* 'matroska'
DocTypeName == <<109, 97, 116, 114, 111, 115, 107, 97>>

\* MatroskaBuilder._get_muxapp
_get_muxapp ==
    <<121, 97, 118, 100, 108, 116, 46, 109, 99, 105, 111, 95, 109, 97, 116,
      114, 111, 115, 107, 97, 32, 112, 114, 101, 45, 118, 101, 114, 115, 105,
      111, 110, 105, 110, 103, 45, 118, 101, 114, 115, 105, 111, 110>>

\* MatroskaBuilder.__init__: self.ebml_hdr
ebml_hdr ==
    MatroskaElementMaster(ID.EBMLHeader,
        <<MatroskaElementString(ID.DocType, DocTypeName, "ascii"),
          MatroskaElementUInt(ID.DocTypeVersion, ToBig(2)),
          MatroskaElementUInt(ID.DocTypeReadVersion, ToBig(2))>>)

\* MatroskaElementDate.new(ts) with its val property: nanoseconds since 2001
MatroskaElementDateUTC(ts) ==
    MatroskaElementSInt(ID.DateUTC, (ts + ut_offset) * 1000000000)

\* MatroskaBuilder.__init__: self.mkv_info; dur*10**9/tcs is computed for a
\* tcs that divides 10**9
mkv_info(cfg) ==
    MatroskaElementMaster(ID.Info,
        <<MatroskaElementBinary(ID.SegmentUID, cfg.uid),
          MatroskaElementUInt(ID.TimecodeScale, ToBig(cfg.tcs)),
          MatroskaElementDateUTC(cfg.ts),
          MatroskaElementString(ID.MuxingApp, _get_muxapp, "ascii")>>
        \o (IF cfg.dur = None THEN <<>>
            ELSE <<MatroskaElementFloat(ID.Duration,
                                        cfg.dur * (1000000000 \div cfg.tcs), 8)>>))

\* MatroskaBuilder._track_lacing
_track_lacing(cfg, ttype) ==
    IF cfg.lace_mask = 0 THEN FALSE
    ELSE IF bc_lavf_lacing THEN ttype = TRACKTYPE_AUDIO
    ELSE TRUE

\* MatroskaCodec.CODEC_ID2MKV for the codecs the demuxers hand over:
\* 'V_MPEG4/ISO/AVC', 'A_AAC', 'S_TEXT/ASS'
mkv_codec(ttype) ==
    CASE ttype = TRACKTYPE_VIDEO ->
             <<86, 95, 77, 80, 69, 71, 52, 47, 73, 83, 79, 47, 65, 86, 67>>
      [] ttype = TRACKTYPE_AUDIO -> <<65, 95, 65, 65, 67>>
      [] ttype = TRACKTYPE_SUB -> <<83, 95, 84, 69, 88, 84, 47, 65, 83, 83>>

\* MatroskaBuilder.settings_map: MatroskaElementVideo.new(width, height),
\* MatroskaElementAudio.new(sfreq, channels)
settings_els(ttype) ==
    CASE ttype = TRACKTYPE_VIDEO ->
             <<MatroskaElementMaster(ID.Video,
                   <<MatroskaElementUInt(ID.PixelWidth, ToBig(320)),
                     MatroskaElementUInt(ID.PixelHeight, ToBig(240))>>)>>
      [] ttype = TRACKTYPE_AUDIO ->
             <<MatroskaElementMaster(ID.Audio,
                   <<MatroskaElementFloat(ID.SamplingFrequency, 44100, 8),
                     MatroskaElementUInt(ID.Channels, ToBig(2))>>)>>
      [] OTHER -> <<>>

\* True and False where the code hands a bool to an integer element
BoolInt(b) == IF b THEN <<1>> ELSE <<>>

\* MatroskaBuilder._build_track: the track entry, for a codec that has a
\* native Matroska id, codec init data cid and a default flag of True
_build_track(cfg, tracks, ttype, cid, make_cues) ==
    LET track_num == Len(tracks) + 1
        lacing == _track_lacing(cfg, ttype)
        sub_els ==
            <<MatroskaElementUInt(ID.TrackNumber, ToBig(track_num)),
              MatroskaElementUInt(ID.TrackUID, ToBig(track_num)),
              MatroskaElementUInt(ID.TrackType, ToBig(ttype)),
              MatroskaElementUInt(ID.FlagLacing, BoolInt(lacing)),
              MatroskaElementString(ID.Codec, mkv_codec(ttype), "ascii"),
              MatroskaElementUInt(ID.FlagDefault, BoolInt(TRUE)),
              MatroskaElementBinary(ID.CodecPrivate, cid)>>
            \o settings_els(ttype)
    IN  [MatroskaElementMaster(ID.TrackEntry, sub_els)
            EXCEPT !.make_cues = make_cues, !.lacing = lacing]

RECURSIVE _add_track_data(_, _, _, _)
\* MatroskaBuilder._add_track_data with _add_frame: data is the sequence of
\* (tv, dur, data_r, is_keyframe); done is the number of items consumed
_add_track_data(frames, track_num, data, done) ==
    IF done = Len(data) THEN frames
    ELSE LET d == data[done + 1]
             tc_dependencies ==
                 IF d.is_keyframe \/ done = 0 THEN <<>>
                 ELSE <<data[done].tv - d.tv>>
             frame == MatroskaFrame(d.tv, 0, tc_dependencies, d.data_r, d.dur)
             fl == IF dict_has(frames, track_num)
                   THEN dict_get(frames, track_num) ELSE <<>>
         IN  _add_track_data(dict_set(frames, track_num, Append(fl, frame)),
                             track_num, data, done + 1)

\* MatroskaBuilder.add_track: the new (tracks.sub, frames)
add_track(cfg, tracks, frames, data, ttype, cid, make_cues) ==
    LET te == _build_track(cfg, tracks, ttype, cid, make_cues)
    IN  [tracks |-> Append(tracks, te),
         frames |-> _add_track_data(frames, Len(tracks) + 1, data, 0)]

\* MatroskaBuilder.add_track_by_entry: the new (tracks.sub, frames)
add_track_by_entry(cfg, tracks, frames, data, te, make_cues) ==
    LET track_num == Len(tracks) + 1
        lacing == _track_lacing(cfg, get_track_type(te))
        te1 == set_sub(te, MatroskaElementUInt(ID.TrackNumber, ToBig(track_num)))
        te2 == set_sub([te1 EXCEPT !.make_cues = make_cues, !.lacing = lacing],
                       MatroskaElementUInt(ID.FlagLacing, BoolInt(lacing)))
    IN  [tracks |-> Append(tracks, te2),
         frames |-> _add_track_data(frames, track_num, data, 0)]

\* MatroskaBuilder.get_tracks_by_type
get_tracks_by_type(tracks, tt) ==
    SelectSeq(tracks, LAMBDA t : get_track_type(t) = tt)

\* MatroskaBuilder.drop_track: the statements run in order; the first one
\* that raises leaves what the earlier ones did
drop_track(tracks, frames, tid) ==
    IF tid - 1 >= Len(tracks) \/ tid - 1 < 0 - Len(tracks)
    THEN [err |-> "IndexError", tracks |-> tracks, frames |-> frames]
    ELSE LET i == IF tid - 1 < 0 THEN Len(tracks) + tid - 1 ELSE tid - 1
             tracks1 == list_del(tracks, i)
         IN  IF ~dict_has(frames, tid)
             THEN [err |-> "KeyError", tracks |-> tracks1, frames |-> frames]
             ELSE [err |-> "", tracks |-> tracks1,
                   frames |-> dict_del(frames, tid)]

RECURSIVE sort_by_type(_)
\* self.sub.sort(key=_key): a stable sort by track type, by insertion
sort_by_type(l) ==
    IF Len(l) <= 1 THEN l
    ELSE LET head == sort_by_type(Front(l))
             x == Last(l)
             n == Cardinality({i \in 1..Len(head) :
                                  get_track_type(head[i]) <= get_track_type(x)})
         IN  SubSeq(head, 1, n) \o <<x>> \o SubSeq(head, n + 1, Len(head))

\* MatroskaElementTracks.sort_tracks: the sorted, renumbered sub list and
\* the map rv from old to new numbers (later entries overwrite earlier ones)
tracks_sort_tracks(tracks) ==
    LET sorted == sort_by_type(tracks)
        renum(i) ==
            set_sub(set_sub(sorted[i],
                            MatroskaElementUInt(ID.TrackNumber, ToBig(i))),
                    MatroskaElementUInt(ID.TrackUID, ToBig(i)))
        olds == List([i \in 1..Len(sorted) |-> get_track_number(sorted[i])])
    IN  [sub |-> List([i \in 1..Len(sorted) |-> renum(i)]),
         rv |-> [tn \in {olds[i] : i \in 1..Len(olds)} |->
                    CHOOSE i \in 1..Len(olds) :
                        /\ olds[i] = tn
                        /\ \A j \in (i + 1)..Len(olds) : olds[j] # tn]]

RECURSIVE remap_frames(_, _, _)
\* MatroskaBuilder.sort_tracks: frames_new[tn_map[tn_old]] = f for the
\* items of self.frames in order
remap_frames(items, tn_map, frames_new) ==
    IF items = <<>> THEN [err |-> "", frames |-> frames_new]
    ELSE IF items[1].key \notin DOMAIN tn_map
    THEN [err |-> "KeyError", frames |-> frames_new]
    ELSE remap_frames(Tail(items), tn_map,
                      dict_set(frames_new, tn_map[items[1].key], items[1].val))

\* MatroskaBuilder.sort_tracks: the tracks are renumbered in place before
\* the frames are remapped; self.frames is replaced only when no key failed
sort_tracks(tracks, frames) ==
    LET st == tracks_sort_tracks(tracks)
        rm == remap_frames(frames, st.rv, <<>>)
    IN  [err |-> rm.err, tracks |-> st.sub,
         frames |-> IF rm.err = "" THEN rm.frames ELSE frames]

(* ------------------------------------------------------------------ *)
(* MatroskaBuilder: blocks, clusters and cues                          *)
(* ------------------------------------------------------------------ *)

\* x & _MATROSKA_LT_FIXED for a lace mask
has_fixed(lm) == (lm \div _MATROSKA_LT_FIXED) % 2 = 1

\* _FrameQueue.__init__: _lm becomes False (0) when the durations differ and
\* loses the FIXED bit when a later frame's size differs from sz
_FrameQueue(frames, lace_mask) ==
    LET lm1 == IF frames # <<>> /\ lace_mask # 0
                   /\ \E i \in 2..Len(frames) : frames[i].dur # frames[1].dur
               THEN 0 ELSE lace_mask
        sz == frames[1].dur
        lm2 == IF frames # <<>> /\ has_fixed(lm1)
                   /\ \E i \in 2..Len(frames) : Len(frames[i].data_r) # sz
               THEN lm1 - _MATROSKA_LT_FIXED ELSE lm1
    IN  [f |-> frames, i |-> 0, lm |-> lm2]

\* _FrameQueue.__bool__
queue_bool(q) == q.i < Len(q.f)

\* _FrameQueue.get_frame
get_frame(q) == q.f[q.i + 1]

\* MatroskaElementBlock_r.new_simple
new_simple(tracknum, timecode, flags, keyframe, frame_data) ==
    MatroskaElementBlock_r(ID.SimpleBlock, tracknum, timecode,
        IF keyframe /\ (flags \div 128) % 2 = 0 THEN flags + 128 ELSE flags,
        frame_data, NoLace)

\* build_blockthing with a SimpleBlock for every keyframe
build_blockthing_keyframe(frame, tracknum, c_off) ==
    IF ~subhdr_packable(frame.tc - c_off, frame.flags)
    THEN [err |-> "struct.error", bt |-> Element]
    ELSE IF frame.dur = None \/ is_keyframe(frame)
    THEN [err |-> "",
          bt |-> new_simple(tracknum, frame.tc - c_off, frame.flags,
                            is_keyframe(frame), <<frame.data_r>>)]
    ELSE [err |-> "",
          bt |-> MatroskaElementMaster(ID.BlockGroup,
                     List([i \in 1..Len(frame.tc_dependencies) |->
                         MatroskaElementSInt(ID.ReferenceBlock,
                                             frame.tc_dependencies[i])])
                     \o <<MatroskaElementUInt(ID.BlockDuration, ToBig(frame.dur))>>
                     \o <<MatroskaElementBlock_r(ID.Block, tracknum,
                              frame.tc - c_off, frame.flags, <<frame.data_r>>,
                              NoLace)>>)]

\* MatroskaFrame.build_blockthing; struct.error when Block_r.__init__ cannot
\* pack the timecode
build_blockthing(frame, tracknum, c_off) ==
    IF ~subhdr_packable(frame.tc - c_off, frame.flags)
    THEN [err |-> "struct.error", bt |-> Element]
    ELSE IF frame.dur = None
    THEN [err |-> "",
          bt |-> new_simple(tracknum, frame.tc - c_off, frame.flags,
                            is_keyframe(frame), <<frame.data_r>>)]
    ELSE LET se == List([i \in 1..Len(frame.tc_dependencies) |->
                       MatroskaElementSInt(ID.ReferenceBlock,
                                           frame.tc_dependencies[i])])
                   \o <<MatroskaElementUInt(ID.BlockDuration, ToBig(frame.dur))>>
                   \o <<MatroskaElementBlock_r(ID.Block, tracknum,
                            frame.tc - c_off, frame.flags, <<frame.data_r>>,
                            NoLace)>>
         IN  [err |-> "", bt |-> MatroskaElementMaster(ID.BlockGroup, se)]

RECURSIVE lace_take_any(_, _, _, _)
\* lace_take without the comparison of the keyframe status
lace_take_any(q, kf, n, ll) ==
    IF queue_bool(q) /\ n < ll
    THEN lace_take_any([q EXCEPT !.i = @ + 1], kf, n + 1, ll)
    ELSE [q |-> q, n |-> n]

RECURSIVE lace_take(_, _, _, _)
\* make_blockthing: the frames popped into fl after frame0; n is len(fl)
lace_take(q, kf, n, ll) ==
    IF queue_bool(q) /\ n < ll /\ is_keyframe(get_frame(q)) = kf
    THEN lace_take([q EXCEPT !.i = @ + 1], kf, n + 1, ll)
    ELSE [q |-> q, n |-> n]

\* make_blockthing: the choice among the lace length sequences the mask
\* allows, Xiph first, EBML when it is shorter
choose_lls(lm, fl) ==
    LET xiph == xiph_build_from_frames(fl)
        ebml == ebml_build_from_frames(fl)
        with_xiph == lm % 2 = 1
        with_ebml == (lm \div 2) % 2 = 1
    IN  IF with_xiph /\ with_ebml
        THEN IF lace_get_size(ebml) < lace_get_size(xiph) THEN ebml ELSE xiph
        ELSE IF with_xiph THEN xiph
        ELSE IF with_ebml THEN ebml
        ELSE NoLace

\* _FrameQueue.make_blockthing(lace_limit, tracknum, c_off).  The block
\* thing bt is what build_blockthing returned for frame0: lace_data and
\* frame_data are set on that object, a SimpleBlock or a BlockGroup.  With
\* the FIXED bit left in _lm the name lls is read before it was assigned.
make_blockthing(q, lace_limit, tracknum, c_off) ==
    LET ll == Min2(lace_limit, 256)
        frame0 == get_frame(q)
        q1 == [q EXCEPT !.i = @ + 1]
        kf == is_keyframe(frame0)
        b == build_blockthing(frame0, tracknum, c_off)
        t == IF q.lm # 0 THEN lace_take(q1, kf, 1, ll) ELSE [q |-> q1, n |-> 1]
        fl == SubSeq(q.f, q.i + 1, q.i + t.n)
        lls == choose_lls(q.lm, fl)
    IN  IF b.err # "" THEN [err |-> b.err, bt |-> Element, q |-> q1]
        ELSE IF q.lm = 0 \/ t.n <= 1 THEN [err |-> "", bt |-> b.bt, q |-> t.q]
        ELSE IF has_fixed(q.lm)
        THEN [err |-> "UnboundLocalError", bt |-> Element, q |-> t.q]
        ELSE IF lls = NoLace
        THEN [err |-> "MatroskaError", bt |-> Element, q |-> t.q]
        ELSE [err |-> "",
              bt |-> [b.bt EXCEPT !.lace_data = lls,
                                  !.frame_data = frame_data_of(fl)],
              q |-> t.q]

\* tlen_c without the bound TLEN_CLUSTER on the 5 seconds
tlen_c_uncapped(cfg) ==
    IF cfg.bc_old_mplayer \/ cfg.bc_vlc
    THEN (5 * (1000000000 \div cfg.tcs))
            + ((5 * (1000000000 % cfg.tcs)) \div cfg.tcs)
    ELSE TLEN_CLUSTER

\* _build_clusters: tlen_c
tlen_c(cfg) ==
    IF cfg.bc_old_mplayer \/ cfg.bc_vlc
    THEN LET secs == 1000000000 \div cfg.tcs
             five == IF secs >= TLEN_CLUSTER THEN TLEN_CLUSTER
                     ELSE (5 * secs) + ((5 * (1000000000 % cfg.tcs)) \div cfg.tcs)
         IN  Min2(TLEN_CLUSTER, five)
    ELSE TLEN_CLUSTER

\* MatroskaElementCluster.new
MatroskaElementCluster(timecode) ==
    [MatroskaElementMaster(ID.Cluster,
                           <<MatroskaElementUInt(ID.Timecode, ToBig(timecode))>>)
        EXCEPT !.tc = timecode]

\* add_cluster with the PrevSize taken from the body of the cluster before,
\* its header left out
add_cluster_body(s, tc, cfg) ==
    LET c2 == MatroskaElementCluster(tc + TOFF_CLUSTER)
        c3 == IF s.c # 0
              THEN set_sub(c2, MatroskaElementUInt(ID.PrevSize,
                       ToBig(SumSeq(List([i \in 1..Len(s.clusters[s.c].sub) |->
                                 get_size(s.clusters[s.c].sub[i])])))))
              ELSE c2
        c_min == c3.tc - 32768
    IN  [s EXCEPT !.clusters = Append(@, [c3 EXCEPT !.blockcount = 0]),
                  !.c = Len(s.clusters) + 1,
                  !.c_min = c_min,
                  !.c_max = c_min + tlen_c(cfg) - 1]

\* _build_clusters: add_cluster(tc) on the loop state s
add_cluster(s, tc, cfg) ==
    LET c2 == MatroskaElementCluster(tc + TOFF_CLUSTER)
        c3 == IF s.c # 0
              THEN set_sub(c2, MatroskaElementUInt(ID.PrevSize,
                                   ToBig(get_size(s.clusters[s.c]))))
              ELSE c2
        c_min == c3.tc - 32768
    IN  [s EXCEPT !.clusters = Append(@, [c3 EXCEPT !.blockcount = 0]),
                  !.c = Len(s.clusters) + 1,
                  !.c_min = c_min,
                  !.c_max = c_min + tlen_c(cfg) - 1]

\* MatroskaElementCuePoint.new
MatroskaElementCuePoint(tv) ==
    MatroskaElementMaster(ID.CuePoint,
                          <<MatroskaElementUInt(ID.CueTime, ToBig(tv))>>)

\* MatroskaElementCueClusterPosition.new with a placeholder of one byte
MatroskaElementCueClusterPosition_byte(clust_id) ==
    [MatroskaElementUInt(ID.CueClusterPosition, Pow2M1(8))
        EXCEPT !.clust_id = clust_id]

\* MatroskaElementCueClusterPosition.new(): (1 << 64) - 1 until the offset
\* is known
MatroskaElementCueClusterPosition(clust_id) ==
    [MatroskaElementUInt(ID.CueClusterPosition, Pow2M1(64))
        EXCEPT !.clust_id = clust_id]

\* MatroskaElementCueTrackPositions.new handing on the count of blocks
\* instead of the index of the block
MatroskaElementCueTrackPositions_blockcount(tracknum, clust_id, cbn) ==
    MatroskaElementMaster(ID.CueTrackPositions,
        <<MatroskaElementUInt(ID.CueTrack, ToBig(tracknum)),
          MatroskaElementCueClusterPosition(clust_id),
          MatroskaElementUInt(ID.CueBlockNumber, ToBig(cbn + 1))>>)

\* MatroskaElementCueTrackPositions.new; id(c) is the place of the cluster
\* in the cluster list
MatroskaElementCueTrackPositions(tracknum, clust_id, cbn) ==
    MatroskaElementMaster(ID.CueTrackPositions,
        <<MatroskaElementUInt(ID.CueTrack, ToBig(tracknum)),
          MatroskaElementCueClusterPosition(clust_id),
          MatroskaElementUInt(ID.CueBlockNumber, ToBig(cbn))>>)

\* min(frames.items(), key=lambda x: x[1].get_frame().tc): the first item
\* with the least timecode
min_item(frames) ==
    CHOOSE i \in 1..Len(frames) :
        /\ \A j \in 1..Len(frames) :
               get_frame(frames[i].val).tc <= get_frame(frames[j].val).tc
        /\ \A j \in 1..(i - 1) :
               get_frame(frames[j].val).tc # get_frame(frames[i].val).tc

\* min(min(f.tc for f in frame_list) for frame_list in self.frames.values())
frame_tc_min(frames) ==
    LET tcs == UNION {{frames[i].val[j].tc : j \in 1..Len(frames[i].val)} :
                         i \in 1..Len(frames)}
    IN  CHOOSE m \in tcs : \A t \in tcs : m <= t

\* _build_clusters: cues[tc], or the new CuePoint that takes its place
cue_point(cues, tc) ==
    IF dict_has(cues, tc) THEN dict_get(cues, tc)
    ELSE MatroskaElementCuePoint(tc)

\* _build_clusters: cp.sub.append(ctp) on the cue point of tc
add_cue(cues, tc, ctp) ==
    dict_set(cues, tc, [cue_point(cues, tc) EXCEPT !.sub = Append(@, ctp)])

\* _build_clusters: the cue entry made for the block just appended to the
\* current cluster
loop_cue(s, tn, frame0, track) ==
    IF is_keyframe(frame0) /\ track.make_cues
    THEN [s EXCEPT !.cues =
             add_cue(@, frame0.tc,
                     MatroskaElementCueTrackPositions(tn, s.c,
                         s.clusters[s.c].blockcount - 1))]
    ELSE s

\* _build_clusters: the queue of track tn after make_blockthing, deleted
\* once it is empty
loop_frames(frames, tn, q) ==
    IF queue_bool(q) THEN dict_set(frames, tn, q) ELSE dict_del(frames, tn)

RECURSIVE clusters_loop(_, _, _)
\* _build_clusters: the loop body from c.sub.append(bt) on, m being what
\* make_blockthing returned; MatroskaElementCueTime.new(tc) asserts
\* tc >= 0
loop_append(s, tracks, cfg, tn, frame0, track, m) ==
    IF m.err # "" THEN [s EXCEPT !.err = m.err]
    ELSE IF is_keyframe(frame0) /\ track.make_cues /\ frame0.tc < 0
    THEN [s EXCEPT !.err = "AssertionError"]
    ELSE clusters_loop(
             loop_cue([s EXCEPT !.frames = loop_frames(@, tn, m.q),
                                !.clusters[s.c] =
                                    [@ EXCEPT !.sub = Append(@, m.bt),
                                              !.blockcount = @ + 1]],
                      tn, frame0, track),
             tracks, cfg)

\* _build_clusters: the loop body from make_blockthing on, the current
\* cluster being the one of the frame
loop_block(s, tracks, cfg, tn, tframes, track) ==
    loop_append(s, tracks, cfg, tn, get_frame(tframes), track,
        make_blockthing(tframes,
            IF track.lacing THEN frames_per_block_limit ELSE 1,
            tn, s.clusters[s.c].tc))

\* _build_clusters: the loop body for the item (tn, tframes) of the least
\* timecode tc; MatroskaElementTimecode.new asserts that the timecode of
\* a new cluster is not negative
loop_item(s, tracks, cfg, tn, tframes, tc) ==
    IF tn - 1 >= Len(tracks) \/ tn - 1 < 0 - Len(tracks)
    THEN [s EXCEPT !.err = "IndexError"]
    ELSE IF (tc > s.c_max \/ tc < s.c_min) /\ tc + TOFF_CLUSTER < 0
    THEN [s EXCEPT !.err = "AssertionError"]
    ELSE loop_block(IF tc > s.c_max \/ tc < s.c_min
                    THEN add_cluster(s, tc, cfg) ELSE s,
                    tracks, cfg, tn, tframes,
                    tracks[IF tn - 1 < 0 THEN Len(tracks) + tn ELSE tn])

\* _build_clusters: one turn of the loop on the item at place k
loop_turn(s, tracks, cfg, k) ==
    loop_item(s, tracks, cfg, s.frames[k].key, s.frames[k].val,
              get_frame(s.frames[k].val).tc)

\* _build_clusters: the loop "while (frames)"
clusters_loop(s, tracks, cfg) ==
    IF s.frames = <<>> \/ s.err # "" THEN s
    ELSE loop_turn(s, tracks, cfg, min_item(s.frames))

\* MatroskaBuilder._build_clusters
_build_clusters(cfg, tracks, frames) ==
    LET s0 == [frames |-> List([i \in 1..Len(frames) |->
                              [key |-> frames[i].key,
                               val |-> _FrameQueue(frames[i].val,
                                                   cfg.lace_mask)]]),
               clusters |-> <<>>, cues |-> <<>>, c |-> 0,
               c_max |-> 0 - 1, c_min |-> 0, err |-> ""]
        s1 == IF cfg.bc_old_mplayer /\ frames # <<>>
              THEN IF frame_tc_min(frames) < 0
                   THEN [s0 EXCEPT !.err = "AssertionError"]
                   ELSE add_cluster(s0, (0 - TOFF_CLUSTER) + frame_tc_min(frames),
                                    cfg)
              ELSE s0
    IN  clusters_loop(s1, tracks, cfg)

(* ------------------------------------------------------------------ *)
(* The VInt codec run on sample values and on the self-test strings    *)
(* ------------------------------------------------------------------ *)

NoDec == [err |-> "none", val |-> PyInt(0), len |-> 0]

\* b + d for a small integer d, or <<>> when the sum is negative
BigShift(b, d) ==
    IF d >= 0 THEN BigAdd(b, ToBig(d))
    ELSE IF BigLeq(ToBig(0 - d), b) THEN BigSub(b, ToBig(0 - d))
    ELSE <<>>

\* Unsigned samples: around the greatest value 2^(7k) - 2 of every length k
UVIntSamples ==
    { PyBig(FALSE, BigShift(BigSub(Pow2(7 * k), <<2>>), d)) :
          k \in 1..8, d \in (0 - EdgeSpan)..EdgeSpan }
    \cup { PyInt(n) : n \in 0..EdgeSpan }

\* Signed samples: around the extreme values +-(2^(7k-1) - 1) of every length k
SVIntSamples ==
    { PyBig(neg, BigShift(Pow2M1(7 * k - 1), d)) :
          neg \in BOOLEAN, k \in 1..7, d \in (0 - EdgeSpan)..EdgeSpan }
    \cup { PyInt(n) : n \in (0 - EdgeSpan)..EdgeSpan }

VIntValues(signed) ==
    { x \in (IF signed THEN SVIntSamples ELSE UVIntSamples) :
          vint_in_domain(x, signed) }

\* _main: the byte strings of the module self-test
SelfTestStrings ==
    { <<26, 69, 223, 163>>, <<66, 134>>, <<95, 191>>, <<27, 83, 134, 103>>,
      <<128>> }

EdgeBytes == (0..EdgeSpan) \cup ((127 - EdgeSpan)..(128 + EdgeSpan))
                 \cup ((255 - EdgeSpan)..255)

VIntStrings ==
    SelfTestStrings
    \cup { <<b>> : b \in 128..255 }
    \cup { <<b, c>> : b \in 64..127, c \in EdgeBytes }
    \cup { <<b, c, d>> : b \in {32, 33, 62, 63}, c \in EdgeBytes, d \in {0, 255} }

ElemIdle ==
    /\ el = Element
    /\ el_depth = 0
    /\ el_pc = "idle"
    /\ el_out = <<>>

\* The builder before write_to_file ran
NoOut ==
    [clusters |-> <<>>, cues |-> Element, void |-> Element, f |-> <<>>,
     seg_off |-> 0, cue_off |-> 0, clust_offs |-> <<>>, cues_sz_base |-> 0]

MuxIdle ==
    /\ mk_cfg = [mode |-> "idle"]
    /\ mk_adds = 0
    /\ mk_tracks = <<>>
    /\ mk_frames = <<>>
    /\ mk_pc = "idle"
    /\ mk_out = NoOut

MainIdle ==
    /\ vid_i = 0
    /\ vid_res = <<>>
    /\ vids_failed = <<>>
    /\ vid_log = <<>>
    /\ main_pc = "idle"
    /\ exit_status = None

\* The files fetch_data can touch: the download fetch_video keeps, the MKV
\* temporary, _choose_final_fn(), and the subtitle files
FileNames == {"raw.tmp", "mkv.tmp", "final", "ass", "nospam.ass", "tt1.ass",
              "tt2.ass"}

FetchIdle ==
    /\ fd_cfg = [mode |-> "idle"]
    /\ fd_pc = "idle"
    /\ fd_fs = [n \in FileNames |-> "none"]
    /\ fd_open = {}
    /\ fd_q = <<>>
    /\ fd_ret = ""
    /\ fd_err = ""

\* fetch_video before the request: nothing asked of the server
NoReq == [off_start |-> 0, prefix_data |-> <<>>, range |-> None]

DlIdle ==
    /\ dl_cfg = [mode |-> "idle"]
    /\ dl_pc = "idle"
    /\ dl_file = <<>>
    /\ dl_pos = 0
    /\ dl_req = NoReq
    /\ dl_res = <<>>
    /\ dl_clg = 0

VoidIdle ==
    /\ vo_pc = "idle"
    /\ vo_full_size = 0
    /\ vo_void = Element
    /\ vo_out = <<>>
    /\ vo_bd_sz = 0
    /\ vo_bd_sz_set = {}

\* A stream dict of make_mkvb before the first tag of the stream
NoStream == [n |-> 0, codec |-> None, sfreq |-> None, channel_count |-> None,
             last |-> <<>>, init_data |-> <<>>]

FlvIdle ==
    /\ fl_cfg = [mode |-> "idle"]
    /\ fl_f = <<>>
    /\ fl_pc = "idle"
    /\ fl_pos = 0
    /\ fl_off = 0
    /\ fl_n = 0
    /\ fl_ad = NoStream
    /\ fl_vd = NoStream

Mp4Idle ==
    /\ mp_trak = [mode |-> "idle"]
    /\ mp_loc = [mode |-> "idle"]
    /\ mp_out = <<>>
    /\ mp_pc = "idle"

AssIdle ==
    /\ st_styles = <<>>
    /\ st_style_i = 0
    /\ st_objs = 0
    /\ st_calls = <<>>

ExtIdle == Mp4Idle /\ AssIdle

AuxIdle == VoidIdle /\ FlvIdle /\ ExtIdle

MoreIdle == FetchIdle /\ DlIdle /\ AuxIdle

VIntInit ==
    /\ ElemIdle
    /\ MuxIdle
    /\ MainIdle
    /\ MoreIdle
    /\ vi_signed \in BOOLEAN
    /\ \/ /\ vi_pc = "value"
          /\ vi_val \in VIntValues(vi_signed)
          /\ vi_bd = <<>>
       \/ /\ vi_pc = "bytes"
          /\ vi_val = PyInt(0)
          /\ vi_bd \in VIntStrings
    /\ vi_dec = NoDec
    /\ vi_bd2 = <<>>

\* EBMLVInt.__init__ and get_bindata
VIntEncode ==
    /\ vi_pc = "value"
    /\ vi_bd' = get_bindata(vi_val, _calc_vint_size(vi_val, vi_signed), vi_signed)
    /\ vi_pc' = "encoded"
    /\ UNCHANGED <<vi_signed, vi_val, vi_dec, vi_bd2, elemVars, muxVars, mainVars, moreVars>>

\* build_from_bindata on the encoded value
VIntDecode ==
    /\ vi_pc = "encoded"
    /\ vi_dec' = build_from_bindata(vi_bd, vi_signed)
    /\ vi_pc' = "decoded"
    /\ UNCHANGED <<vi_signed, vi_val, vi_bd, vi_bd2, elemVars, muxVars, mainVars, moreVars>>

\* _main: build_from_bindata on a self-test string
VIntParse ==
    /\ vi_pc = "bytes"
    /\ vi_dec' = build_from_bindata(vi_bd, vi_signed)
    /\ vi_pc' = "parsed"
    /\ UNCHANGED <<vi_signed, vi_val, vi_bd, vi_bd2, elemVars, muxVars, mainVars, moreVars>>

\* _main: get_bindata on the parsed value
VIntReencode ==
    /\ vi_pc = "parsed"
    /\ vi_dec.err = ""
    /\ vi_bd2' = get_bindata(vi_dec.val, _calc_vint_size(vi_dec.val, vi_signed),
                             vi_signed)
    /\ vi_pc' = "reencoded"
    /\ UNCHANGED <<vi_signed, vi_val, vi_bd, vi_dec, elemVars, muxVars, mainVars, moreVars>>

VIntNext == VIntEncode \/ VIntDecode \/ VIntParse \/ VIntReencode

VIntIdle ==
    /\ vi_pc = "idle"
    /\ vi_signed = FALSE
    /\ vi_val = PyInt(0)
    /\ vi_bd = <<>>
    /\ vi_dec = NoDec
    /\ vi_bd2 = <<>>

SpecVInt == VIntInit /\ [][VIntNext]_vars

(* ------------------------------------------------------------------ *)
(* The element writer run on element trees of every class              *)
(* ------------------------------------------------------------------ *)

UIntValues ==
    { <<>>, <<1>>, <<255>>, <<1, 0>>, <<255, 255>>, <<1, 0, 0>>,
      <<127, 255, 255, 255>>, <<1, 0, 0, 0, 0>>, Pow2M1(56), Pow2M1(64) }

SIntValues ==
    { 0 - 8388609, 0 - 8388608, 0 - 32769, 0 - 32768, 0 - 129, 0 - 128, 0 - 1,
      0, 1, 127, 128, 32767, 32768, 8388607, 8388608 }

FloatValues == { 0, 1, 3, 8000, 44100 }

\* Strings with one multi-byte character at most, long enough to cross the
\* one-byte size field
StringValues ==
    { Rep(97, n) : n \in {0, 1, 126, 127} }
    \cup { Rep(97, n) \o <<c>> : n \in {0, 125, 126}, c \in {233, 8364} }

DataSizes == {0, 1, 125, 126, 127, 128}

VoidSizes == {2, 3, 4, 127, 128, 129, 130, 131}

\* Payload sizes of the frames of one block
FrameSizeLists ==
    { <<1>>, <<0, 0>>, <<1, 2>>, <<2, 1>>, <<3, 3, 3>>, <<254, 255, 1>>,
      <<255, 256, 1>>, <<300, 1, 70, 5>>, <<64, 1, 1>>, <<1, 64, 1>> }

\* Frames of the given payload sizes; frame i holds bytes of value i
SizedFrames(sizes) ==
    List([i \in 1..Len(sizes) |-> MatroskaFrame(0, 0, <<>>, Rep(i, sizes[i]), None)])

ElemInit ==
    /\ VIntIdle
    /\ MuxIdle
    /\ MainIdle
    /\ MoreIdle
    /\ el_depth = 0
    /\ el_pc = "built"
    /\ el_out = <<>>
    /\ \/ \E v \in UIntValues : el = MatroskaElementUInt(ID.CueClusterPosition, v)
       \/ \E v \in SIntValues : el = MatroskaElementSInt(ID.ReferenceBlock, v)
       \/ \E v \in FloatValues, n \in {4, 8} :
              el = MatroskaElementFloat(ID.Duration, v, n)
       \/ \E v \in { x \in StringValues : \A i \in 1..Len(x) : x[i] < 128 } :
              el = MatroskaElementString(ID.Codec, v, "ascii")
       \/ \E v \in StringValues : el = MatroskaElementString(ID.Title, v, "utf-8")
       \/ \E n \in DataSizes :
              el = MatroskaElementBinary(ID.CodecPrivate, Rep(7, n))
       \/ \E n \in VoidSizes : el = new_by_size(n).void
       \/ \E sizes \in FrameSizeLists, lt \in {_MATROSKA_LT_XIPH, _MATROSKA_LT_EBML},
             kind \in {<<ID.SimpleBlock, 128>>, <<ID.SimpleBlock, 0>>, <<ID.Block, 0>>},
             tn \in {1, 127}, tc \in {0 - 32768, 32767} :
              LET frames == SizedFrames(sizes)
                  ld == IF Len(sizes) = 1 THEN NoLace
                        ELSE IF lt = _MATROSKA_LT_XIPH
                        THEN xiph_build_from_frames(frames)
                        ELSE ebml_build_from_frames(frames)
              IN  el = MatroskaElementBlock_r(kind[1], tn, tc, kind[2],
                                              frame_data_of(frames), ld)

\* MatroskaElementMaster.new([...]): the element becomes a child of a master
ElemWrap ==
    /\ el_pc = "built"
    /\ el_depth < MaxDepth
    /\ \E type \in {ID.BlockGroup, ID.Cues}, first \in BOOLEAN :
           el' = MatroskaElementMaster(type,
                     IF first THEN <<el>>
                     ELSE <<MatroskaElementUInt(ID.Timecode, <<>>), el>>)
    /\ el_depth' = el_depth + 1
    /\ UNCHANGED <<el_pc, el_out, vintVars, muxVars, mainVars, moreVars>>

\* write_to_file(c) on the element
ElemWrite ==
    /\ el_pc = "built"
    /\ IF write_raises(el)
       THEN el_pc' = "MatroskaError" /\ el_out' = <<>>
       ELSE el_pc' = "written" /\ el_out' = write_to_file(el)
    /\ UNCHANGED <<el, el_depth, vintVars, muxVars, mainVars, moreVars>>

ElemNext == ElemWrap \/ ElemWrite

SpecElem == ElemInit /\ [][ElemNext]_vars

(* ------------------------------------------------------------------ *)
(* MatroskaElementVoid.new_by_size                                     *)
(* ------------------------------------------------------------------ *)

\* The values of full_size: every length up to MaxVoid, and the lengths
\* around 128^2 + 2
VoidTargets ==
    (0..MaxVoid) \cup { 16386 + d : d \in (0 - EdgeSpan)..EdgeSpan }

VoidInit ==
    /\ VIntIdle
    /\ ElemIdle
    /\ MuxIdle
    /\ MainIdle
    /\ FetchIdle
    /\ DlIdle
    /\ FlvIdle
    /\ ExtIdle
    /\ vo_pc = "target"
    /\ vo_full_size \in VoidTargets
    /\ vo_void = Element
    /\ vo_out = <<>>
    /\ vo_bd_sz = 0
    /\ vo_bd_sz_set = {}

\* MatroskaElementVoid.new_by_size(full_size)
VoidNew ==
    /\ vo_pc = "target"
    /\ \E r \in {new_by_size(vo_full_size)} :
           IF r.err # ""
           THEN vo_pc' = r.err /\ vo_void' = vo_void
           ELSE vo_pc' = "made" /\ vo_void' = r.void
    /\ UNCHANGED <<vo_full_size, vo_out, vo_bd_sz, vo_bd_sz_set, vintVars, elemVars, muxVars, mainVars,
                   fetchVars, dlVars, flvVars, extVars>>

\* write_to_file of the Void that new_by_size returned
VoidWrite ==
    /\ vo_pc = "made"
    /\ IF write_raises(vo_void)
       THEN vo_pc' = "MatroskaError" /\ vo_out' = <<>>
       ELSE vo_pc' = "written" /\ vo_out' = write_to_file(vo_void)
    /\ UNCHANGED <<vo_full_size, vo_void, vo_bd_sz, vo_bd_sz_set, vintVars, elemVars, muxVars, mainVars,
                   fetchVars, dlVars, flvVars, extVars>>

VoidNext == VoidNew \/ VoidWrite

SpecVoid == VoidInit /\ [][VoidNext]_vars

\* What one turn of the search loop of new_by_size does: st is "search"
\* when the loop goes on, "made" when it returns void, or the exception
\* raised
Turn(st, void, bd_sz, bd_sz_set) ==
    [st |-> st, void |-> void, bd_sz |-> bd_sz, bd_sz_set |-> bd_sz_set]

\* search_turn without bd_sz_set.add(bd_sz)
search_turn_forgetful(full_size, bd_sz, bd_sz_set, void) ==
    IF bd_sz \in bd_sz_set THEN Turn("MatroskaError", Element, bd_sz, bd_sz_set)
    ELSE IF 0 <= full_size - get_size(void)
            /\ full_size - get_size(void) <= sz_len_pad(full_size)
    THEN IF void.bd_size_size + sz_len_pad(full_size) > 8
         THEN Turn("MatroskaError", Element, bd_sz, bd_sz_set)
         ELSE Turn("made",
                   [void EXCEPT !.bd_size_size = @ + sz_len_pad(full_size)],
                   bd_sz, bd_sz_set)
    ELSE Turn("search", Element,
              Max2(bd_sz + (full_size - get_size(void)), 0), bd_sz_set)

\* MatroskaElementVoid.new_by_size: the test of the search loop and one
\* turn of it, void being cls(DataRefNull(bd_sz)); the loop left without a
\* return raises MatroskaError
search_turn(full_size, bd_sz, bd_sz_set, void) ==
    IF bd_sz \in bd_sz_set THEN Turn("MatroskaError", Element, bd_sz, bd_sz_set)
    ELSE IF 0 <= full_size - get_size(void)
            /\ full_size - get_size(void) <= sz_len_pad(full_size)
    THEN IF void.bd_size_size + sz_len_pad(full_size) > 8
         THEN Turn("MatroskaError", Element, bd_sz, bd_sz_set \cup {bd_sz})
         ELSE Turn("made",
                   [void EXCEPT !.bd_size_size = @ + sz_len_pad(full_size)],
                   bd_sz, bd_sz_set \cup {bd_sz})
    ELSE Turn("search", Element,
              Max2(bd_sz + (full_size - get_size(void)), 0),
              bd_sz_set \cup {bd_sz})

\* new_by_size(full_size) up to its search loop: bd_sz = full_size and
\* bd_sz_set = set()
SearchStart ==
    /\ vo_pc = "target"
    /\ vo_pc' = "search"
    /\ vo_bd_sz' = vo_full_size
    /\ vo_bd_sz_set' = {}
    /\ UNCHANGED <<vo_full_size, vo_void, vo_out, vintVars, elemVars, muxVars,
                   mainVars, fetchVars, dlVars, flvVars, extVars>>

\* new_by_size: one turn of the search loop
SearchTurn ==
    /\ vo_pc = "search"
    /\ \E r \in {search_turn(vo_full_size, vo_bd_sz, vo_bd_sz_set,
                              MatroskaElementVoid(DataRefNull(vo_bd_sz)))} :
           /\ vo_pc' = r.st
           /\ vo_void' = r.void
           /\ vo_bd_sz' = r.bd_sz
           /\ vo_bd_sz_set' = r.bd_sz_set
    /\ UNCHANGED <<vo_full_size, vo_out, vintVars, elemVars, muxVars, mainVars,
                   fetchVars, dlVars, flvVars, extVars>>

SearchNext == SearchStart \/ SearchTurn

\* A turn of the search loop is there to be taken and changes the state
search_turn_moves ==
    /\ vo_pc = "search"
    /\ \E r \in {search_turn(vo_full_size, vo_bd_sz, vo_bd_sz_set,
                              MatroskaElementVoid(DataRefNull(vo_bd_sz)))} :
           <<r.st, r.void, r.bd_sz, r.bd_sz_set>>
               # <<vo_pc, vo_void, vo_bd_sz, vo_bd_sz_set>>

\* The call runs on: a step of new_by_size that can be taken is taken. The
\* second condition is WF_vars(SearchTurn) written out, search_turn_moves
\* being ENABLED <<SearchTurn>>_vars.
SpecSearch ==
    /\ VoidInit
    /\ [][SearchNext]_vars
    /\ WF_vars(SearchStart)
    /\ ([]<>(~search_turn_moves) \/ []<><<SearchTurn>>_vars)

(* ------------------------------------------------------------------ *)
(* mcde_flv.py: the ActionScript value parser of script tags           *)
(* ------------------------------------------------------------------ *)

\* struct.unpack of a big-endian unsigned integer ('>B', '>H', '>L')
RECURSIVE be_uint(_)
be_uint(b) == IF b = <<>> THEN 0 ELSE be_uint(Front(b)) * 256 + Last(b)

\* f.read(count) at position pos: the bytes returned; a negative count
\* reads to the end of the file
f_read(f, pos, count) ==
    IF pos >= Len(f) THEN <<>>
    ELSE IF count < 0 THEN SubSeq(f, pos + 1, Len(f))
    ELSE SubSeq(f, pos + 1, Min2(pos + count, Len(f)))

\* f.tell() after f.read(count) at position pos
f_tell(f, pos, count) ==
    IF pos >= Len(f) THEN pos
    ELSE IF count < 0 THEN Len(f)
    ELSE Min2(pos + count, Len(f))

\* bytes.rstrip(b'\x00')
RECURSIVE rstrip0(_)
rstrip0(b) == IF b # <<>> /\ Last(b) = 0 THEN rstrip0(Front(b)) ELSE b

\* The byte c continues a UTF-8 sequence
is_cont(c) == c >= 128 /\ c <= 191

\* bytes.decode('utf-8') does not raise UnicodeDecodeError
RECURSIVE utf8_decodes(_)
utf8_decodes(b) ==
    IF b = <<>> THEN TRUE
    ELSE IF b[1] < 128 THEN utf8_decodes(Tail(b))
    ELSE IF b[1] >= 194 /\ b[1] <= 223
    THEN Len(b) >= 2 /\ is_cont(b[2]) /\ utf8_decodes(SubSeq(b, 3, Len(b)))
    ELSE IF b[1] >= 224 /\ b[1] <= 239
    THEN /\ Len(b) >= 3 /\ is_cont(b[2]) /\ is_cont(b[3])
         /\ (b[1] = 224 => b[2] >= 160)
         /\ (b[1] = 237 => b[2] <= 159)
         /\ utf8_decodes(SubSeq(b, 4, Len(b)))
    ELSE IF b[1] >= 240 /\ b[1] <= 244
    THEN /\ Len(b) >= 4 /\ is_cont(b[2]) /\ is_cont(b[3]) /\ is_cont(b[4])
         /\ (b[1] = 240 => b[2] >= 144)
         /\ (b[1] = 244 => b[2] <= 143)
         /\ utf8_decodes(SubSeq(b, 5, Len(b)))
    ELSE FALSE

\* A value the parser returns: its Python type t ("double", "bool", "str",
\* "bytes", "dict", "none", "end" for END_MARKER) and, for str and bytes,
\* its bytes s.  The items of a dict are not kept.
ASVal(t, s) == [t |-> t, s |-> s]

\* What a read_* method does: the exception it raises ("" when it returns),
\* the position it leaves the file at, and the value it returns
ASRes(err, pos, val) == [err |-> err, pos |-> pos, val |-> val]

ASErr(err, pos) == ASRes(err, pos, ASVal("none", <<>>))

\* ASParser._read(count) raises ASParserError
_read_raises(pos, count, off_lim) == pos + count > off_lim

\* ASParser._read(count) followed by struct.unpack of a format of count
\* bytes: "" when both succeed
_read_unpack(f, pos, count, off_lim) ==
    IF _read_raises(pos, count, off_lim) THEN "ASParserError"
    ELSE IF Len(f_read(f, pos, count)) # count THEN "struct.error"
    ELSE ""

\* ASParser.read_double
read_double(f, pos, off_lim) ==
    IF _read_unpack(f, pos, 8, off_lim) # ""
    THEN ASErr(_read_unpack(f, pos, 8, off_lim), pos)
    ELSE ASRes("", pos + 8, ASVal("double", <<>>))

\* ASParser.read_bool
read_bool(f, pos, off_lim) ==
    IF _read_unpack(f, pos, 1, off_lim) # ""
    THEN ASErr(_read_unpack(f, pos, 1, off_lim), pos)
    ELSE ASRes("", pos + 1, ASVal("bool", <<>>))

\* ASParser.read_binary
read_binary(f, pos, off_lim) ==
    IF _read_unpack(f, pos, 2, off_lim) # ""
    THEN ASErr(_read_unpack(f, pos, 2, off_lim), pos)
    ELSE LET l == be_uint(f_read(f, pos, 2))
         IN  IF _read_raises(pos + 2, l, off_lim)
             THEN ASErr("ASParserError", pos + 2)
             ELSE IF Len(f_read(f, pos + 2, l)) # l
             THEN ASErr("ASParserError", f_tell(f, pos + 2, l))
             ELSE ASRes("", pos + 2 + l, ASVal("bytes", f_read(f, pos + 2, l)))

\* .rstrip(b'\x00').decode('utf-8') of what read_binary returned
decode_binary(r) ==
    IF r.err # "" THEN r
    ELSE IF ~utf8_decodes(rstrip0(r.val.s)) THEN ASErr("UnicodeDecodeError", r.pos)
    ELSE ASRes("", r.pos, ASVal("str", rstrip0(r.val.s)))

\* ASParser.read_string
read_string(f, pos, off_lim) == decode_binary(read_binary(f, pos, off_lim))

\* ASParser.read_longstring: the length is read through _read, the data
\* from the file directly
read_longstring(f, pos, off_lim) ==
    IF _read_unpack(f, pos, 4, off_lim) # ""
    THEN ASErr(_read_unpack(f, pos, 4, off_lim), pos)
    ELSE LET l == be_uint(f_read(f, pos, 4))
         IN  IF Len(f_read(f, pos + 4, l)) # l
             THEN ASErr("ASParserError", f_tell(f, pos + 4, l))
             ELSE ASRes("", pos + 4 + l, ASVal("bytes", f_read(f, pos + 4, l)))

\* ASParser.read_date: '>dS' is not a format struct accepts
read_date(f, pos, off_lim) ==
    IF _read_raises(pos, 10, off_lim) THEN ASErr("ASParserError", pos)
    ELSE ASErr("struct.error", f_tell(f, pos, 10))

RECURSIVE read_value(_, _, _)
RECURSIVE read_array(_, _, _)
RECURSIVE read_strict_items(_, _, _, _)

\* An (key, value) pair read_obj returns, or the exception it raises
ASObj(err, pos, key, val) == [err |-> err, pos |-> pos, key |-> key, val |-> val]

\* ASParser.read_obj, after read_string returned k
read_obj_value(k, v) == ASObj(v.err, v.pos, k.val, v.val)

\* ASParser.read_obj
read_obj_key(f, off_lim, k) ==
    IF k.err # "" THEN ASObj(k.err, k.pos, k.val, k.val)
    ELSE read_obj_value(k, read_value(f, k.pos, off_lim))

read_obj(f, pos, off_lim) == read_obj_key(f, off_lim, read_string(f, pos, off_lim))

\* ASParser.read_array: one turn of the loop, obj being what read_obj returned
read_array_obj(f, off_lim, obj) ==
    IF obj.err # "" THEN ASErr(obj.err, obj.pos)
    ELSE IF obj.key.s = <<>> /\ obj.val.t = "end"
    THEN ASRes("", obj.pos, ASVal("dict", <<>>))
    ELSE read_array(f, obj.pos, off_lim)

read_array(f, pos, off_lim) == read_array_obj(f, off_lim, read_obj(f, pos, off_lim))

\* ASParser.read_ecmaarray
read_ecmaarray(f, pos, off_lim) == read_array(f, pos + 4, off_lim)

\* ASParser.read_strictarray: the generator of l calls of read_obj
read_strict_obj(f, off_lim, l, obj) ==
    IF obj.err # "" THEN ASErr(obj.err, obj.pos)
    ELSE read_strict_items(f, obj.pos, off_lim, l - 1)

read_strict_items(f, pos, off_lim, l) ==
    IF l = 0 THEN ASRes("", pos, ASVal("dict", <<>>))
    ELSE read_strict_obj(f, off_lim, l, read_obj(f, pos, off_lim))

\* ASParser.read_strictarray
read_strictarray(f, pos, off_lim) ==
    IF _read_unpack(f, pos, 4, off_lim) # ""
    THEN ASErr(_read_unpack(f, pos, 4, off_lim), pos)
    ELSE read_strict_items(f, pos + 4, off_lim, be_uint(f_read(f, pos, 4)))

\* ASParser.data_handlers[t](self)
data_handlers(f, pos, off_lim, t) ==
    CASE t = 0 -> read_double(f, pos, off_lim)
      [] t = 1 -> read_bool(f, pos, off_lim)
      [] t = 2 -> read_string(f, pos, off_lim)
      [] t = 3 -> read_array(f, pos, off_lim)
      [] t = 4 -> read_binary(f, pos, off_lim)
      [] t = 5 \/ t = 6 -> ASRes("", pos, ASVal("none", <<>>))
      [] t = 8 -> read_ecmaarray(f, pos, off_lim)
      [] t = 9 -> ASRes("", pos, ASVal("end", <<>>))
      [] t = 10 -> read_strictarray(f, pos, off_lim)
      [] t = 11 -> read_date(f, pos, off_lim)
      [] t = 12 -> read_longstring(f, pos, off_lim)
      [] OTHER -> ASErr("KeyError", pos)

\* ASParser.read_value
read_value(f, pos, off_lim) ==
    IF _read_unpack(f, pos, 1, off_lim) # ""
    THEN ASErr(_read_unpack(f, pos, 1, off_lim), pos)
    ELSE data_handlers(f, pos + 1, off_lim, f[pos + 1])

\* The bytes of the str 'onMetaData'
onMetaData == <<111, 110, 77, 101, 116, 97, 68, 97, 116, 97>>

\* md.update(rv) of make_mkvb: the exception dict.update raises for the
\* value rv, "" when it takes it
md_update(rv) ==
    IF rv.t = "dict" THEN ""
    ELSE IF rv.t = "str" THEN (IF rv.s = <<>> THEN "" ELSE "ValueError")
    ELSE IF rv.t = "bytes" THEN (IF rv.s = <<>> THEN "" ELSE "TypeError")
    ELSE "TypeError"

\* ASParser.parse_data: the two values read from off on, or the exception
\* raised; {key: val} needs a hashable key
parse_data(f, off, off_lim) ==
    LET key == read_value(f, off, off_lim)
    IN  IF key.err # "" THEN ASObj(key.err, key.pos, key.val, key.val)
        ELSE LET val == read_value(f, key.pos, off_lim)
             IN  IF val.err # "" THEN ASObj(val.err, val.pos, key.val, val.val)
                 ELSE IF key.val.t = "dict"
                 THEN ASObj("TypeError", val.pos, key.val, val.val)
                 ELSE ASObj("", val.pos, key.val, val.val)

\* md.update(tag.get_metadata()) for the script tag whose ASParser has the
\* domain from off to off + size: the exception raised, "" when there is
\* none.  get_metadata returns None unless the key is 'onMetaData'.
get_metadata(f, off, size) ==
    LET asp_data == parse_data(f, off, off + size)
    IN  IF asp_data.err # "" THEN asp_data.err
        ELSE IF asp_data.key.t = "str" /\ asp_data.key.s = onMetaData
        THEN md_update(asp_data.val)
        ELSE "TypeError"

(* ------------------------------------------------------------------ *)
(* mcde_flv.py: FLVReader                                              *)
(* ------------------------------------------------------------------ *)

\* An FLVTag object: its type, its timestamp, the fields of the audio and
\* video classes (None where the class has none) and the file range of its
\* DataRefFile or ASParser
FLVTag(type, ts, codec, sample_freq, channels, pt, keyframe, ct_off, off, size) ==
    [type |-> type, ts |-> ts, codec |-> codec, sample_freq |-> sample_freq,
     channels |-> channels, pt |-> pt, is_keyframe |-> keyframe,
     ct_off |-> ct_off, off |-> off, size |-> size]

NoTag == FLVTag(None, None, None, None, None, None, FALSE, <<>>, 0, 0)

\* What a build_from_file returns or raises
TagRes(err, tag) == [err |-> err, tag |-> tag]

SAMPLE_RATE_TABLE == <<550, 11000, 22000, 44000>>

\* FLVAudioData.build_from_file
FLVAudioData_build_from_file(f, pos, data_size, ts) ==
    IF f_read(f, pos, 1) = <<>> THEN TagRes("struct.error", NoTag)
    ELSE IF f[pos + 1] \div 16 # 10
    THEN TagRes("", FLVTag(8, ts, f[pos + 1] \div 16,
                           SAMPLE_RATE_TABLE[((f[pos + 1] \div 4) % 4) + 1],
                           (f[pos + 1] % 2) + 1, None, FALSE, <<>>,
                           pos + 1, data_size - 1))
    ELSE IF f_read(f, pos + 1, 1) = <<>> THEN TagRes("struct.error", NoTag)
    ELSE TagRes("", FLVTag(8, ts, 10,
                           SAMPLE_RATE_TABLE[((f[pos + 1] \div 4) % 4) + 1],
                           (f[pos + 1] % 2) + 1, f[pos + 2], FALSE, <<>>,
                           pos + 2, data_size - 2))

\* FLVVideoData.build_from_file: the composition time offset of an AVC tag
\* is unpacked as an unsigned 32 bit value and kept as a big
FLVVideoData_build_from_file(f, pos, data_size, ts) ==
    IF f_read(f, pos, 1) = <<>> THEN TagRes("struct.error", NoTag)
    ELSE IF f[pos + 1] % 16 # 7
    THEN TagRes("", FLVTag(9, ts, f[pos + 1] % 16, None, None, None,
                           (f[pos + 1] \div 16) \in {1, 5}, <<>>,
                           pos + 1, data_size - 1))
    ELSE IF Len(f_read(f, pos + 1, 4)) # 4 THEN TagRes("struct.error", NoTag)
    ELSE TagRes("", FLVTag(9, ts, 7, None, None, f[pos + 2],
                           (f[pos + 1] \div 16) \in {1, 5},
                           Strip(<<IF f[pos + 3] >= 128 THEN 255 ELSE 0,
                                   f[pos + 3], f[pos + 4], f[pos + 5]>>),
                           pos + 5, data_size - 5))

\* FLVScriptData.build_from_file: the ASParser gets the domain that starts
\* at f.tell()
FLVScriptData_build_from_file(f, pos, data_size, ts) ==
    TagRes("", FLVTag(18, ts, None, None, None, None, FALSE, <<>>, pos, data_size))

\* The build_from_file that parse_tags calls for the tag type: the call of
\* FLVDummyTag.build_from_file passes one argument too many
build_from_file(f, pos, ttype, body_size, ts) ==
    CASE ttype = 8 -> FLVAudioData_build_from_file(f, pos, body_size, ts)
      [] ttype = 9 -> FLVVideoData_build_from_file(f, pos, body_size, ts)
      [] ttype = 18 -> FLVScriptData_build_from_file(f, pos, body_size, ts)
      [] OTHER -> TagRes("TypeError", NoTag)

\* The four bytes struct.pack('>L', n) gives for n below 2^31
pack_L(n) == <<n \div 16777216, (n \div 65536) % 256, (n \div 256) % 256, n % 256>>

\* FLVReader.parse_header: the exception raised, "" when it returns
parse_header(f) ==
    IF Len(f_read(f, 0, 9)) # 9 THEN "struct.error"
    ELSE IF SubSeq(f, 1, 3) # <<70, 76, 86>> THEN "FLVParserError"
    ELSE IF f_read(f, be_uint(SubSeq(f, 6, 9)), 4) = <<>> THEN ""
    ELSE IF Len(f_read(f, be_uint(SubSeq(f, 6, 9)), 4)) # 4 THEN "struct.error"
    ELSE IF f_read(f, be_uint(SubSeq(f, 6, 9)), 4) # pack_L(0) THEN "FLVParserError"
    ELSE ""

\* The position parse_header leaves the file at when it returns
parse_header_tell(f) == f_tell(f, be_uint(SubSeq(f, 6, 9)), 4)

\* What one turn of the loop of parse_tags does: st is "end" when the loop
\* ends, "tag" when it yields tag, or the exception raised
TagStep(st, tag, tag_size) == [st |-> st, tag |-> tag, tag_size |-> tag_size]

\* parse_tags, one turn of its loop with the file at off.  The timestamp
\* extension byte is assigned to the slice hdr2_data[5:6] as an integer n,
\* which stores n zero bytes: unless it is 0, hdr2_data does not have the
\* 8 bytes '>LL' takes.
parse_tags(f, off) ==
    IF f_read(f, off, 11) = <<>> THEN TagStep("end", NoTag, 0)
    ELSE IF Len(f_read(f, off, 11)) # 11 THEN TagStep("FLVParserError", NoTag, 0)
    ELSE IF f[off + 8] # 0 THEN TagStep("struct.error", NoTag, 0)
    ELSE LET body_size == be_uint(SubSeq(f, off + 2, off + 4))
             ts == be_uint(SubSeq(f, off + 5, off + 7))
             tag_size == body_size + 11
             r == build_from_file(f, off + 11, f[off + 1], body_size, ts)
         IN  IF r.err # "" THEN TagStep(r.err, NoTag, tag_size)
             ELSE IF Len(f_read(f, off + tag_size, 4)) # 4
             THEN TagStep("struct.error", NoTag, tag_size)
             ELSE IF f_read(f, off + tag_size, 4) # pack_L(tag_size)
             THEN TagStep("FLVParserError", NoTag, tag_size)
             ELSE TagStep("tag", r.tag, tag_size)

\* check_stream_consistency of the audio and video tag classes
check_stream_consistency(self, other) ==
    IF self.type = 8
    THEN /\ self.codec = other.codec
         /\ self.sample_freq = other.sample_freq
         /\ self.channels = other.channels
    ELSE self.codec = other.codec

\* is_header of the audio and video tag classes, as the condition of an if
is_header(tag) == tag.pt # None /\ tag.pt = 0

\* make_mkvb, the body of its loop for an audio or video tag: the
\* exception raised ("" when there is none) and the stream dict d after
\* it.  The message of the inconsistency error names tag_prev, a name
\* that is not bound.
stream_tag(f, d, tag) ==
    IF d.last # <<>> /\ ~check_stream_consistency(d.last[1], tag)
    THEN [err |-> "NameError", d |-> d]
    ELSE [err |-> "",
          d |-> [n |-> IF is_header(tag) THEN d.n ELSE d.n + 1,
                 codec |-> IF d.last = <<>> THEN tag.codec ELSE d.codec,
                 sfreq |-> IF d.last = <<>> /\ tag.type = 8
                           THEN tag.sample_freq ELSE d.sfreq,
                 channel_count |-> IF d.last = <<>> /\ tag.type = 8
                                   THEN tag.channels ELSE d.channel_count,
                 last |-> IF is_header(tag) THEN d.last ELSE <<tag>>,
                 init_data |-> IF is_header(tag)
                               THEN f_read(f, tag.off, tag.size)
                               ELSE d.init_data]]

(* The files of the runs: a header followed by up to MaxTags tags, with   *)
(* the flaws a file can have: a wrong signature, a body size or a         *)
(* post-tag size that is off, and a script value with its last bytes cut  *)
(* off, so that it runs past the end of its tag body.                     *)

\* struct.pack('>H', n)
pack_H(n) == <<n \div 256, n % 256>>

\* The file header with signature sig, followed by the first tag size 0
FlvHeader(sig) == sig \o <<1, 5>> \o pack_L(9) \o pack_L(0)

\* A tag of type ttype with the body given: the body size in the header is
\* off by size_d, the post-tag size by post_d more
FlvTagBytes(ttype, body, size_d, post_d) ==
    <<ttype>> \o Tail(pack_L(Len(body) + size_d)) \o <<0, 0, 0>> \o <<0>>
    \o <<0, 0, 0>> \o body \o pack_L(Len(body) + size_d + 11 + post_d)

\* A keyframe of codec 2 and an MP3 audio frame
VideoBody == <<18, 1, 2>>

AudioBody == <<47, 1, 2>>

\* The script values: a string, a long string, an ECMA array of one double
\* with its end marker, a strict array of one long string
ScriptValue(kind) ==
    CASE kind = "string" -> <<2>> \o pack_H(3) \o <<97, 98, 99>>
      [] kind = "longstring" -> <<12>> \o pack_L(3) \o <<97, 98, 99>>
      [] kind = "ecma" -> <<8>> \o pack_L(1) \o pack_H(1) \o <<107>>
                          \o <<0>> \o <<63, 240, 0, 0, 0, 0, 0, 0>> \o <<0, 0, 9>>
      [] kind = "strict" -> <<10>> \o pack_L(1) \o pack_H(1) \o <<107>>
                            \o <<12>> \o pack_L(3) \o <<97, 98, 99>>

ScriptKinds == {"string", "longstring", "ecma", "strict"}

\* The body of a script tag: the key 'onMetaData' and the value without
\* its last cut bytes
ScriptBody(kind, cut) ==
    <<2>> \o pack_H(10) \o onMetaData
    \o SubSeq(ScriptValue(kind), 1, Len(ScriptValue(kind)) - cut)

\* The descriptions of the tags of the files
TagDescs ==
    [type : {8, 9}, kind : {""}, cut : {0}, size_d : {0, 1}, post_d : {0, 1}]
    \cup [type : {18}, kind : ScriptKinds, cut : 0..MaxCut, size_d : {0}, post_d : {0}]

TagBytes(d) ==
    FlvTagBytes(d.type,
                CASE d.type = 8 -> AudioBody
                  [] d.type = 9 -> VideoBody
                  [] OTHER -> ScriptBody(d.kind, d.cut),
                d.size_d, d.post_d)

RECURSIVE TagsBytes(_)
TagsBytes(ds) == IF ds = <<>> THEN <<>> ELSE TagBytes(Head(ds)) \o TagsBytes(Tail(ds))

\* The sequences of up to n tag descriptions
RECURSIVE TagSeqs(_)
TagSeqs(n) ==
    IF n = 0 THEN {<<>>}
    ELSE TagSeqs(n - 1)
         \cup { Append(ts, d) : ts \in { t \in TagSeqs(n - 1) : Len(t) = n - 1 },
                                d \in TagDescs }

FlvInit ==
    /\ VIntIdle
    /\ ElemIdle
    /\ MuxIdle
    /\ MainIdle
    /\ FetchIdle
    /\ DlIdle
    /\ VoidIdle
    /\ ExtIdle
    /\ \E sig \in {<<70, 76, 86>>, <<70, 76, 88>>}, ds \in TagSeqs(MaxTags) :
           /\ fl_cfg = [mode |-> "flv", sig |-> sig, tags |-> ds]
           /\ fl_f = FlvHeader(sig) \o TagsBytes(ds)
    /\ fl_pc = "header"
    /\ fl_pos = 0
    /\ fl_off = 0
    /\ fl_n = 0
    /\ fl_ad = NoStream
    /\ fl_vd = NoStream

\* make_mkvb_from_file: flvr.parse_header()
FlvParseHeader ==
    /\ fl_pc = "header"
    /\ IF parse_header(fl_f) # ""
       THEN fl_pc' = parse_header(fl_f) /\ UNCHANGED <<fl_pos, fl_off>>
       ELSE /\ fl_pc' = "tags"
            /\ fl_pos' = parse_header_tell(fl_f)
            /\ fl_off' = parse_header_tell(fl_f)
    /\ UNCHANGED <<fl_cfg, fl_f, fl_n, fl_ad, fl_vd, vintVars, elemVars, muxVars,
                   mainVars, fetchVars, dlVars, voidVars, extVars>>

\* make_mkvb: parse_tags runs to its next yield and the body of the loop
\* of make_mkvb handles the tag; "parsed" when parse_tags has ended.  The
\* position of the file is followed up to the exception that ends a run.
FlvTag ==
    /\ fl_pc = "tags"
    /\ \E r \in {parse_tags(fl_f, fl_off)} :
           IF r.st = "end"
           THEN fl_pc' = "parsed" /\ UNCHANGED <<fl_pos, fl_off, fl_n, fl_ad, fl_vd>>
           ELSE IF r.st # "tag"
           THEN fl_pc' = r.st /\ UNCHANGED <<fl_pos, fl_off, fl_n, fl_ad, fl_vd>>
           ELSE IF r.tag.type = 18
           THEN \E e \in {get_metadata(fl_f, r.tag.off, r.tag.size)} :
                    /\ fl_n' = fl_n + 1
                    /\ UNCHANGED <<fl_ad, fl_vd>>
                    /\ IF e # ""
                       THEN fl_pc' = e /\ UNCHANGED <<fl_pos, fl_off>>
                       ELSE /\ fl_pc' = "tags"
                            /\ fl_off' = fl_off + r.tag_size + 4
                            /\ fl_pos' = fl_off + r.tag_size + 4
           ELSE \E sd \in {stream_tag(fl_f, IF r.tag.type = 8 THEN fl_ad ELSE fl_vd, r.tag)} :
                    /\ fl_n' = fl_n + 1
                    /\ fl_ad' = (IF r.tag.type = 8 THEN sd.d ELSE fl_ad)
                    /\ fl_vd' = (IF r.tag.type = 9 THEN sd.d ELSE fl_vd)
                    /\ IF sd.err # ""
                       THEN fl_pc' = sd.err /\ UNCHANGED <<fl_pos, fl_off>>
                       ELSE /\ fl_pc' = "tags"
                            /\ fl_off' = fl_off + r.tag_size + 4
                            /\ fl_pos' = fl_off + r.tag_size + 4
    /\ UNCHANGED <<fl_cfg, fl_f, vintVars, elemVars, muxVars, mainVars, fetchVars,
                   dlVars, voidVars, extVars>>

FlvNext == FlvParseHeader \/ FlvTag

SpecFlv == FlvInit /\ [][FlvNext]_vars

\* FLVVideoData.get_ts on a tag read from a file, as a big: the tag
\* timestamp, plus the composition time offset as build_from_file unpacked
\* it when the tag has one
FLVVideoData_get_ts(tag) ==
    IF tag.pt = None THEN ToBig(tag.ts) ELSE BigAdd(ToBig(tag.ts), tag.ct_off)

(* The files of the runs on tag bodies: a header followed by up to MaxTags *)
(* well-formed audio and video tags.                                      *)

\* A tag of type ttype with timestamp ts and the body given
FlvTagAt(ttype, ts, body) ==
    <<ttype>> \o Tail(pack_L(Len(body))) \o Tail(pack_L(ts)) \o <<0>>
    \o <<0, 0, 0>> \o body \o pack_L(Len(body) + 11)

\* The composition time offsets of the AVC tags, in ms
BodyCts == {0 - 40, 0, 40}

\* The three bytes of a signed 24 bit number
pack_s24(n) == Tail(pack_L(IF n < 0 THEN 16777216 + n ELSE n))

\* The flag bytes of the audio tags: MP3 (codec 2) with every sample rate
\* index, sample size bit and channel bit, and AAC (codec 10) with 16 bit
\* stereo and every sample rate index
AudioFlags ==
    { 32 + (4 * r) + (2 * sz) + ch : r \in 0..3, sz \in 0..1, ch \in 0..1 }
    \cup { 160 + (4 * r) + 3 : r \in 0..3 }

\* The descriptions of the tags: audio tags at 0 ms, AVC keyframes at 0 and
\* 40 ms with a composition time offset
BodyDescs ==
    [type : {8}, flags : AudioFlags, ts : {0}, ct : {0}]
    \cup [type : {9}, flags : {23}, ts : {0, 40}, ct : BodyCts]

\* The bytes of a described tag: an AAC and an AVC tag have packet type 1
BodyTagBytes(d) ==
    FlvTagAt(d.type, d.ts,
             IF d.type = 9 THEN <<d.flags, 1>> \o pack_s24(d.ct) \o <<9>>
             ELSE IF d.flags \div 16 = 10 THEN <<d.flags, 1, 2>>
             ELSE <<d.flags, 2>>)

RECURSIVE BodyTagsBytes(_)
BodyTagsBytes(ds) ==
    IF ds = <<>> THEN <<>>
    ELSE BodyTagBytes(Head(ds)) \o BodyTagsBytes(Tail(ds))

\* The sequences of up to n described tags
RECURSIVE BodySeqs(_)
BodySeqs(n) ==
    IF n = 0 THEN {<<>>}
    ELSE BodySeqs(n - 1)
         \cup { Append(ts, d) : ts \in { t \in BodySeqs(n - 1) : Len(t) = n - 1 },
                                d \in BodyDescs }

BodyInit ==
    /\ VIntIdle
    /\ ElemIdle
    /\ MuxIdle
    /\ MainIdle
    /\ FetchIdle
    /\ DlIdle
    /\ VoidIdle
    /\ ExtIdle
    /\ \E ds \in BodySeqs(MaxTags) :
           /\ fl_cfg = [mode |-> "body", sig |-> <<70, 76, 86>>, tags |-> ds]
           /\ fl_f = FlvHeader(<<70, 76, 86>>) \o BodyTagsBytes(ds)
    /\ fl_pc = "header"
    /\ fl_pos = 0
    /\ fl_off = 0
    /\ fl_n = 0
    /\ fl_ad = NoStream
    /\ fl_vd = NoStream

SpecBody == BodyInit /\ [][FlvNext]_vars

(* ------------------------------------------------------------------ *)
(* MovBoxTrack.get_sample_data: the samples of a track, one per step   *)
(* ------------------------------------------------------------------ *)

\* A table of the sample table box: present is FALSE for one the file does
\* not have (the attribute of the track is None)
Table(present, entry_data) == [present |-> present, entry_data |-> entry_data]

RECURSIVE stsc_runs(_, _, _)
\* MovBoxSampleToChunk._init2, the loop: a run (chunks, samples per chunk)
\* for every entry whose first chunk lies after the one of the entry
\* before it
stsc_runs(ed, fc_l, spc_l) ==
    IF ed = <<>> THEN <<>>
    ELSE (IF ed[1].fc > fc_l
          THEN <<[cnum |-> ed[1].fc - fc_l, spc |-> spc_l]>> ELSE <<>>)
         \o stsc_runs(Tail(ed), ed[1].fc, ed[1].spc)

\* MovBoxSampleToChunk._init2: entry_data_pp for a table whose first entry
\* has first chunk 1; the last run has no count
entry_data_pp(ed) ==
    stsc_runs(ed, 1, None) \o <<[cnum |-> None, spc |-> ed[Len(ed)].spc]>>

\* MovBoxSampleSize.get_ss(i): self.sample_size or self.entry_data[i]
get_ss(stsz, i) ==
    IF stsz.sample_size # None /\ stsz.sample_size # 0 THEN stsz.sample_size
    ELSE stsz.entry_data[i + 1]

\* The local variables of get_sample_data before the loop; spc and s_off
\* are not bound yet
NoLoc ==
    [s |-> 0, s_sublim |-> 0, c |-> 0, c_lim |-> 0, cblock |-> 0, spc |-> None,
     s_off |-> None, timeval |-> 0, err |-> ""]

RECURSIVE next_run(_, _)
\* get_sample_data: while ((not (c_lim is None)) and (c >= c_lim))
next_run(l, sc) ==
    IF l.c_lim # None /\ l.c >= l.c_lim
    THEN next_run([l EXCEPT !.c_lim = IF sc[l.cblock + 1].cnum = None THEN None
                                      ELSE @ + sc[l.cblock + 1].cnum,
                            !.spc = sc[l.cblock + 1].spc,
                            !.cblock = @ + 1], sc)
    ELSE l

\* get_sample_data: the steps after the inner loop of "if (s >= s_sublim)",
\* r being the locals the inner loop left; co[c] raises IndexError past the
\* end of the table
next_chunk(r, co) ==
    IF r.c >= Len(co) THEN [r EXCEPT !.err = "IndexError"]
    ELSE [r EXCEPT !.s_sublim = @ + r.spc, !.s_off = co[r.c + 1], !.c = @ + 1]

\* get_sample_data: one turn of the loop for a track without a ctts table,
\* called with time_mult 1 and no default duration; l1 are the locals after
\* "if (s >= s_sublim)"
sample_turn(trak, l1) ==
    IF l1.err # "" THEN [loc |-> l1, out |-> <<>>]
    ELSE [loc |-> [l1 EXCEPT !.s_off = @ + get_ss(trak.stsz, l1.s),
                             !.s = @ + 1,
                             !.timeval = @ + trak.stts[l1.s + 1]],
          out |-> <<[tv |-> l1.timeval, dur |-> trak.stts[l1.s + 1],
                     off |-> l1.s_off, size |-> get_ss(trak.stsz, l1.s),
                     is_sync |-> (~trak.stss.present
                                      \/ (l1.s + 1) \in trak.stss.entry_data)]>>]

\* get_sample_data: the statements before the loop; the exception raised,
\* "" when there is none
sample_data_start(trak) ==
    IF trak.edts.present THEN "MovParserError"
    ELSE IF ~trak.stco.present THEN "AttributeError"
    ELSE ""

(* The tracks of the runs: up to MaxFrames samples one tick apart, laid    *)
(* out in chunks of every division, the chunks 100 bytes apart.            *)

RECURSIVE ChunkLayouts(_)
\* The divisions of n samples into chunks: the samples per chunk
ChunkLayouts(n) ==
    IF n = 0 THEN {<<>>}
    ELSE UNION { { <<k>> \o l : l \in ChunkLayouts(n - k) } : k \in 1..n }

\* The stsc entries of a division: one for every chunk that holds another
\* number of samples than the chunk before it
stsc_of(layout) ==
    SelectSeq(List([k \in 1..Len(layout) |->
                       [fc |-> k, spc |-> layout[k],
                        new |-> k = 1 \/ layout[k] # layout[k - 1]]]),
              LAMBDA e : e.new)

\* The chunk offsets of a division
co_of(layout) == List([k \in 1..Len(layout) |-> 100 * k])

\* The sample size tables of n samples: one size for all samples, or a
\* size of 1 or 2 for each
SizeTables(n) ==
    { [sample_size |-> 3, entry_data |-> <<>>, elnum |-> n] }
    \cup { [sample_size |-> None, entry_data |-> List(sz), elnum |-> n] :
           sz \in [1..n -> {1, 2}] }

Mp4Traks ==
    UNION { { [mode |-> "mp4", layout |-> layout, stsz |-> stsz,
               stsc |-> stsc_of(layout), stts |-> Rep(1, n),
               stco |-> Table(~c64, IF c64 THEN <<>> ELSE co_of(layout)),
               co64 |-> Table(c64, IF c64 THEN co_of(layout) ELSE <<>>),
               stss |-> Table(ss, {1}), edts |-> Table(FALSE, <<>>)] :
              layout \in ChunkLayouts(n), stsz \in SizeTables(n),
              c64 \in BOOLEAN, ss \in BOOLEAN } : n \in 1..MaxFrames }

Mp4Init ==
    /\ VIntIdle
    /\ ElemIdle
    /\ MuxIdle
    /\ MainIdle
    /\ FetchIdle
    /\ DlIdle
    /\ VoidIdle
    /\ FlvIdle
    /\ AssIdle
    /\ mp_trak \in Mp4Traks
    /\ mp_loc = NoLoc
    /\ mp_out = <<>>
    /\ mp_pc = "created"

\* __next__ of the generator get_sample_data(1) returned: it runs to its
\* next yield, to its end or to an exception
Mp4NextSample ==
    /\ mp_pc \in {"created", "yielded"}
    /\ IF mp_pc = "created" /\ sample_data_start(mp_trak) # ""
       THEN /\ mp_pc' = sample_data_start(mp_trak)
            /\ UNCHANGED <<mp_loc, mp_out>>
       ELSE IF mp_loc.s >= mp_trak.stsz.elnum
       THEN /\ mp_pc' = "done"
            /\ UNCHANGED <<mp_loc, mp_out>>
       ELSE \E r \in {sample_turn(mp_trak,
                          IF mp_loc.s >= mp_loc.s_sublim
                          THEN next_chunk(next_run(mp_loc,
                                              entry_data_pp(mp_trak.stsc)),
                                          mp_trak.stco.entry_data)
                          ELSE mp_loc)} :
                /\ mp_loc' = r.loc
                /\ mp_out' = mp_out \o r.out
                /\ mp_pc' = (IF r.loc.err # "" THEN r.loc.err ELSE "yielded")
    /\ UNCHANGED <<mp_trak, vintVars, elemVars, muxVars, mainVars, fetchVars,
                   dlVars, voidVars, flvVars, assVars>>

SpecMp4 == Mp4Init /\ [][Mp4NextSample]_vars

(* ------------------------------------------------------------------ *)
(* ASSSubSet.make_style: the styles of a subtitle set                  *)
(* ------------------------------------------------------------------ *)

\* ASSStyle.fields without 'name': three of the fields with their default
\* values; False is kept as 0 and True as 1, which Python takes as equal
style_fields ==
    <<[key |-> "fontname", val |-> None], [key |-> "fontsize", val |-> 20],
      [key |-> "fs_bold", val |-> 0]>>

\* ASSStyle.__init__(name, **kwargs): the exception raised, "" when there
\* is none.  A keyword 'name' meets the positional name; for an unknown
\* keyword the raise statement names ValueErrror, which is not bound.
style_init_raises(nargs, kwargs) ==
    IF nargs > 0 \/ dict_has(kwargs, "name") THEN "TypeError"
    ELSE IF \E i \in 1..Len(kwargs) : ~dict_has(style_fields, kwargs[i].key)
    THEN "NameError"
    ELSE ""

\* ASSStyle.get_values() of the style ASSStyle(None, **kwargs): for every
\* field but the name the keyword's value, or the default value
get_values(kwargs) ==
    List([i \in 1..Len(style_fields) |->
             IF dict_has(kwargs, style_fields[i].key)
             THEN dict_get(kwargs, style_fields[i].key)
             ELSE style_fields[i].val])

RECURSIVE format_d(_)
\* '{0:d}'.format(n) for n >= 0: the decimal digits
format_d(n) == IF n < 10 THEN <<n>> ELSE format_d(n \div 10) \o <<n % 10>>

\* ASSSubSet._get_style_name without the step of the counter
_get_style_name_fixed(style_i) ==
    [rv |-> <<"Style">> \o format_d(style_i), style_i |-> style_i]

\* ASSSubSet._get_style_name: the name and the counter after the call
_get_style_name(style_i) ==
    [rv |-> <<"Style">> \o format_d(style_i), style_i |-> style_i + 1]

\* ASSSubSet.make_style on the styles and the counter given, id being the
\* identity of the style object it builds: what it returns, the styles and
\* the counter after the call
make_style(styles, style_i, id, kwargs) ==
    IF dict_has(styles, get_values(kwargs))
    THEN [rv |-> dict_get(styles, get_values(kwargs)), styles |-> styles,
          style_i |-> style_i]
    ELSE [rv |-> [id |-> id, name |-> _get_style_name(style_i).rv],
          styles |-> dict_set(styles, get_values(kwargs),
                              [id |-> id, name |-> _get_style_name(style_i).rv]),
          style_i |-> _get_style_name(style_i).style_i]

\* The keyword arguments of the calls: none, a field at its default value,
\* other values of one and of two fields, and an unknown keyword
StyleKwargs ==
    { <<>>, <<[key |-> "fontsize", val |-> 20]>>,
      <<[key |-> "fontsize", val |-> 30]>>, <<[key |-> "fs_bold", val |-> 1]>>,
      <<[key |-> "fs_bold", val |-> 1], [key |-> "fontsize", val |-> 30]>>,
      <<[key |-> "colour", val |-> 1]>> }

\* The calls: with keyword arguments only, or with one positional argument
StyleCalls ==
    { [nargs |-> 0, kwargs |-> kw] : kw \in StyleKwargs }
    \cup { [nargs |-> 1, kwargs |-> <<>>] }

NoStyle == [id |-> 0, name |-> <<>>]

AssInit ==
    /\ VIntIdle
    /\ ElemIdle
    /\ MuxIdle
    /\ MainIdle
    /\ FetchIdle
    /\ DlIdle
    /\ VoidIdle
    /\ FlvIdle
    /\ Mp4Idle
    /\ st_styles = <<>>
    /\ st_style_i = 0
    /\ st_objs = 0
    /\ st_calls = <<>>

\* subset.make_style(*args, **kwargs)
AssMakeStyle ==
    /\ Len(st_calls) < MaxCalls
    /\ \E call \in StyleCalls :
           IF style_init_raises(call.nargs, call.kwargs) # ""
           THEN /\ st_calls' = Append(st_calls,
                       [err |-> style_init_raises(call.nargs, call.kwargs),
                        key |-> <<>>, rv |-> NoStyle])
                /\ UNCHANGED <<st_styles, st_style_i, st_objs>>
           ELSE \E r \in {make_style(st_styles, st_style_i, st_objs + 1,
                                     call.kwargs)} :
                    /\ st_calls' = Append(st_calls,
                           [err |-> "", key |-> get_values(call.kwargs),
                            rv |-> r.rv])
                    /\ st_styles' = r.styles
                    /\ st_style_i' = r.style_i
                    /\ st_objs' = st_objs + 1
    /\ UNCHANGED <<vintVars, elemVars, muxVars, mainVars, fetchVars, dlVars,
                   voidVars, flvVars, mp4Vars>>

SpecAss == AssInit /\ [][AssMakeStyle]_vars

(* ------------------------------------------------------------------ *)
(* MatroskaBuilder.write_to_file                                       *)
(* ------------------------------------------------------------------ *)

\* f.seek(off) followed by f.write(data) on a file that holds the bytes f
file_write_at(f, off, data) ==
    SubSeq(f, 1, off) \o data \o SubSeq(f, off + Len(data) + 1, Len(f))

RECURSIVE sorted_by_key(_)
\* [cues[tv] for tv in sorted(cues.keys())]
sorted_by_key(d) ==
    IF d = <<>> THEN <<>>
    ELSE LET k == CHOOSE i \in 1..Len(d) : \A j \in 1..Len(d) : d[i].key <= d[j].key
         IN  <<d[k].val>> \o sorted_by_key(dict_del(d, d[k].key))

\* update_ccps taking the offset of the first cluster for every entry
update_ccps_first(cues, co_map) ==
    LET upd_ctp(ctp) ==
            LET ccp == get_sub_by_cls(ctp, ID.CueClusterPosition)
            IN  set_sub(ctp, [ccp EXCEPT !.uval = ToBig(co_map[1])])
        upd_cp(cp) ==
            [cp EXCEPT !.sub =
                List([i \in 1..Len(cp.sub) |->
                    IF cp.sub[i].type = ID.CueTrackPositions
                    THEN upd_ctp(cp.sub[i]) ELSE cp.sub[i]])]
    IN  [cues EXCEPT !.sub = List([i \in 1..Len(cues.sub) |-> upd_cp(cues.sub[i])])]

\* MatroskaElementCues.update_ccps
update_ccps(cues, co_map) ==
    LET upd_ctp(ctp) ==
            LET ccp == get_sub_by_cls(ctp, ID.CueClusterPosition)
            IN  set_sub(ctp, [ccp EXCEPT !.uval = ToBig(co_map[ccp.clust_id])])
        upd_cp(cp) ==
            [cp EXCEPT !.sub =
                List([i \in 1..Len(cp.sub) |->
                    IF cp.sub[i].type = ID.CueTrackPositions
                    THEN upd_ctp(cp.sub[i]) ELSE cp.sub[i]])]
    IN  [cues EXCEPT !.sub = List([i \in 1..Len(cues.sub) |-> upd_cp(cues.sub[i])])]

\* write_to_file: the second-pass bytes of the Void that takes the bytes the
\* Cues gave up
void_write(out, cues_sz, v) ==
    IF v.err # "" THEN [err |-> v.err, out |-> out]
    ELSE [err |-> "",
          out |-> [out EXCEPT
                      !.void = v.void,
                      !.f = file_write_at(@, out.cue_off + cues_sz,
                                          write_to_file(v.void))]]

\* write_to_file: the steps after cues.write_to_file(ctx) of the second pass
void_pass(out, raises, cues_sz) ==
    IF raises \/ cues_sz > out.cues_sz_base
    THEN [err |-> "MatroskaError", out |-> out]
    ELSE IF cues_sz = out.cues_sz_base THEN [err |-> "", out |-> out]
    ELSE void_write(out, cues_sz, new_by_size(out.cues_sz_base - cues_sz))

\* write_to_file: f.seek(cue_off) and cues.write_to_file(ctx) on the file f1
\* of the first pass
cues_pass(clusters, f1, seg_off, cue_off, clust_offs, cues_sz_base, cues2) ==
    void_pass([clusters |-> clusters, cues |-> cues2, void |-> Element,
               f |-> file_write_at(f1, cue_off, write_to_file(cues2)),
               seg_off |-> seg_off, cue_off |-> cue_off,
               clust_offs |-> clust_offs, cues_sz_base |-> cues_sz_base],
              write_raises(cues2), get_size(cues2))

\* f.tell() before the i-th child of the Segment is written
tell(seg_off, sub_bytes, i) ==
    seg_off + SumSeq(List([j \in 1..(i - 1) |-> Len(sub_bytes[j])]))

\* write_to_file: the offsets the callbacks of the first pass record, the
\* Void child removed and update_ccps
second_pass(clusters, cues, head, sub_bytes, clust_offs) ==
    cues_pass(clusters, head \o Concat(sub_bytes), Len(head),
              tell(Len(head), sub_bytes, 3), clust_offs, get_size(cues),
              update_ccps(remove_subvals_by_cls(cues, ID.Void), clust_offs))

\* write_to_file: the first pass, head being the EBML header and the header
\* of the Segment, sub_bytes the bytes of the children of the Segment
first_pass(clusters, cues, head, sub_bytes) ==
    second_pass(clusters, cues, head, sub_bytes,
        List([k \in 1..Len(clusters) |->
                 tell(Len(head), sub_bytes, 3 + k) - Len(head)]))

\* self.ebml_hdr.write_to_file(ctx) and the header seg.write_to_file(ctx)
\* writes for a body of blen bytes
segment_head(seg_sub, blen) ==
    write_to_file(ebml_hdr)
        \o _write_header(MatroskaElementMaster(ID.Segment, seg_sub), blen,
                         vsize(blen))

\* write_to_file: the Segment of seg_sub written
write_segment(clusters, seg_sub) ==
    IF write_raises(ebml_hdr)
           \/ \E i \in 1..Len(seg_sub) : write_raises(seg_sub[i])
    THEN [err |-> "MatroskaError", out |-> NoOut]
    ELSE first_pass(clusters, seg_sub[3],
             segment_head(seg_sub,
                 SumSeq(List([i \in 1..Len(seg_sub) |-> get_size(seg_sub[i])]))),
             List([i \in 1..Len(seg_sub) |-> write_to_file(seg_sub[i])]))

\* write_to_file: on the clusters and cues b that _build_clusters returned
write_built(cfg, tracks, b) ==
    IF b.err # "" THEN [err |-> b.err, out |-> NoOut]
    ELSE write_segment(b.clusters,
             <<mkv_info(cfg), MatroskaElementMaster(ID.Tracks, tracks),
               MatroskaElementMaster(ID.Cues,
                   Append(sorted_by_key(b.cues), new_by_size(2).void))>>
             \o b.clusters)

\* MatroskaBuilder.write_to_file(f) on an empty file: both passes.  seg_off
\* is set by MatroskaElementSegment.write_to_file, clust_offs and cue_off by
\* the callbacks of the first pass.
builder_write_to_file(cfg, tracks, frames) ==
    write_built(cfg, tracks, _build_clusters(cfg, tracks, frames))

(* ------------------------------------------------------------------ *)
(* The builder run on tracks of frames                                 *)
(* ------------------------------------------------------------------ *)

(* ------------------------------------------------------------------ *)
(* Demuxers: the frames handed to the builder                          *)
(* ------------------------------------------------------------------ *)

\* FLVVideoData.get_ts: the tag timestamp, plus the composition time
\* offset of an AVC tag
get_ts(tag) == IF tag.ct_off = None THEN tag.ts ELSE tag.ts + tag.ct_off

\* FLVVideoData.get_framedata; the payload is kept as its size
get_framedata(tag) ==
    [tv |-> get_ts(tag), dur |-> None, size |-> tag.size,
     kf |-> tag.is_keyframe]

\* (t.get_framedata() for t in vd['data'])
flv_video_data(tags) == List([i \in 1..Len(tags) |-> get_framedata(tags[i])])

RECURSIVE sorted(_)
\* sorted(l) for a list of integers
sorted(l) ==
    IF Len(l) <= 1 THEN l
    ELSE LET head == sorted(Front(l))
             n == Cardinality({i \in 1..Len(head) : head[i] <= Last(l)})
         IN  SubSeq(head, 1, n) \o <<Last(l)>> \o SubSeq(head, n + 1, Len(head))

\* MovBoxTrack.sample_durations: the stts deltas, or with a ctts table the
\* differences of the sorted composition times
sample_durations(stts, ctts) ==
    IF ctts = <<>> THEN stts
    ELSE LET n == Min2(Len(stts), Len(ctts))
             ts_l == sorted(List([i \in 1..n |->
                                     SumSeq(SubSeq(stts, 1, i)) + ctts[i]]))
         IN  List([i \in 1..n |-> ts_l[i] - (IF i = 1 THEN 0 ELSE ts_l[i - 1])])

\* MovBoxTrack._get_most_common_dur: max((val, key)) over the frequencies
_get_most_common_dur(durs) ==
    LET vals == {durs[i] : i \in 1..Len(durs)}
        freq(d) == Cardinality({i \in 1..Len(durs) : durs[i] = d})
    IN  CHOOSE d \in vals :
            \A e \in vals : freq(e) < freq(d) \/ (freq(e) = freq(d) /\ e <= d)

\* MovBoxTrack.get_sample_data(time_mult, default_dur) for a whole number
\* time_mult; the payload is kept as its size
get_sample_data(trak, time_mult, default_dur) ==
    LET durs == sample_durations(trak.stts, trak.ctts)
    IN  List([s \in 1..Len(trak.stsz) |->
            LET timeval == SumSeq(SubSeq(trak.stts, 1, s - 1))
                tv_d == IF trak.ctts = <<>> THEN timeval
                        ELSE timeval + trak.ctts[s] - trak.ctts[1]
            IN  [tv |-> tv_d * time_mult,
                 dur |-> IF durs[s] = default_dur THEN None
                         ELSE durs[s] * time_mult,
                 size |-> trak.stsz[s],
                 kf |-> trak.stss = {} \/ s \in trak.stss]])

\* track.get_sample_data(elmult*ts_fact, mcd) as make_mkvb calls it
mp4_sample_data(trak, time_mult) ==
    get_sample_data(trak, time_mult,
        _get_most_common_dur(sample_durations(trak.stts, trak.ctts)))

\* Video tags of an FLV file: timestamps 40 ms apart in decoding order, the
\* first tag a keyframe; no composition time offsets (not AVC), or one of
\* 0, 40, 80 ms for each tag
FlvVideoTags ==
    UNION { { List([i \in 1..n |->
                  [ts |-> 40 * (i - 1), ct_off |-> off[i], size |-> 1,
                   is_keyframe |-> i = 1]]) :
              off \in [1..n -> {None}] \cup [1..n -> {0, 40, 80}] } :
            n \in 1..MaxFrames }

\* Video tracks of an MP4 file: samples one tick apart in decoding order,
\* the first one a sync sample; no ctts table, or an offset of 0, 1 or 2
\* ticks for each sample.  A table the file does not have (self.ctts,
\* self.stss is None) is kept as the empty one.
Mp4VideoTraks ==
    UNION { { [stts |-> Rep(1, n), ctts |-> ctts, stsz |-> Rep(1, n),
               stss |-> stss] :
              ctts \in {<<>>} \cup { List(o) : o \in [1..n -> {0, 1, 2}] },
              stss \in {{}, {1}} } :
            n \in 1..MaxFrames }

\* The frame streams the demuxers hand over for a video track
DemuxItems ==
    { flv_video_data(tags) : tags \in FlvVideoTags }
    \cup { mp4_sample_data(trak, 40) : trak \in Mp4VideoTraks }

\* The (tv, dur, data_r, is_keyframe) items of a track from their
\* description; frame idx of the uid-th track added holds bytes 16 uid + idx
track_data(uid, items) ==
    List([idx \in 1..Len(items) |->
        [tv |-> items[idx].tv, dur |-> items[idx].dur,
         data_r |-> Rep((16 * uid) + idx, items[idx].size),
         is_keyframe |-> items[idx].kf]])

\* Frames for the lacing decisions: n frames ten ticks apart, every size
\* combination, all of them keyframes or only the first one, durations all
\* absent, all 2, or absent after the first frame
LaceItems ==
    UNION { { List([idx \in 1..n |->
                  [tv |-> 10 * idx, size |-> sz[idx], kf |-> allkf \/ idx = 1,
                   dur |-> IF durs = "none" \/ (durs = "mixed" /\ idx > 1)
                           THEN None ELSE 2]]) :
              sz \in [1..n -> {1, 2}], allkf \in BOOLEAN,
              durs \in {"none", "all", "mixed"} } : n \in 1..MaxFrames }

\* Timecode sequences around the edges of a cluster's range, also backwards
TimeTcs ==
    { <<0>>, <<0, 4999>>, <<0, 5000>>, <<0, 32767>>, <<0, 32768>>,
      <<0, 65535>>, <<0, 65536>>, <<40000, 0>>, <<5, 4, 3>>, <<0, 65535, 1>>,
      <<100, 33000, 99>>, <<0, 32768, 98304>>, <<0, 65536, 1, 65535>> }

\* Frames for the cluster allocation: every frame a keyframe or only the
\* first one, durations absent or 3
TimeItems ==
    { List([idx \in 1..Len(tcs) |->
          [tv |-> tcs[idx], size |-> 1, kf |-> allkf \/ idx = 1, dur |-> dur]]) :
      tcs \in {t \in TimeTcs : Len(t) <= MaxFrames}, allkf \in BOOLEAN,
      dur \in {None, 3} }

\* A short track next to the first one: two frames at ticks 10 and 20
PairItems(dur, kf2) ==
    <<[tv |-> 10, size |-> 1, kf |-> TRUE, dur |-> dur],
      [tv |-> 20, size |-> 2, kf |-> kf2, dur |-> dur]>>

\* Timecodes of the frames of a track for the merge of the tracks: in
\* ascending order, with equal timecodes inside a track and across tracks
MergeTcs == { <<0>>, <<10>>, <<0, 0>>, <<0, 10>>, <<5, 10>> }

\* Frames for the merge of the tracks, every one a keyframe
MergeItems ==
    { List([idx \in 1..Len(tcs) |->
          [tv |-> tcs[idx], size |-> 1, kf |-> TRUE, dur |-> None]]) :
      tcs \in {t \in MergeTcs : Len(t) <= MaxFrames} }

\* Frames of equal size and equal duration: n keyframes of 100 bytes ten
\* ticks apart, the duration of every one absent, 2, 23 or 100
EqualItems ==
    { List([idx \in 1..n |->
          [tv |-> 10 * idx, size |-> 100, kf |-> TRUE, dur |-> dur]]) :
      n \in 1..MaxFrames, dur \in {None, 2, 23, 100} }

\* The tracks a run may add as its k-th track, by the kind of run
TrackInputs(mode, k) ==
    CASE mode = "lace" ->
             IF k = 1
             THEN { [ttype |-> TRACKTYPE_AUDIO, make_cues |-> FALSE, items |-> it] :
                    it \in LaceItems }
             ELSE { [ttype |-> TRACKTYPE_VIDEO, make_cues |-> TRUE,
                     items |-> PairItems(2, TRUE)] }
      [] mode = "time" ->
             IF k = 1
             THEN { [ttype |-> TRACKTYPE_VIDEO, make_cues |-> TRUE, items |-> it] :
                    it \in TimeItems }
             ELSE IF k > 2
             THEN { [ttype |-> TRACKTYPE_SUB, make_cues |-> TRUE,
                     items |-> PairItems(None, TRUE)] }
             ELSE { [ttype |-> TRACKTYPE_AUDIO, make_cues |-> TRUE,
                     items |-> PairItems(None, TRUE)],
                    [ttype |-> TRACKTYPE_AUDIO, make_cues |-> TRUE,
                     items |-> PairItems(3, FALSE)],
                    [ttype |-> TRACKTYPE_SUB, make_cues |-> FALSE,
                     items |-> PairItems(None, TRUE)] }
      [] mode = "equal" ->
             IF k = 1
             THEN { [ttype |-> TRACKTYPE_AUDIO, make_cues |-> FALSE, items |-> it] :
                    it \in EqualItems }
             ELSE { [ttype |-> TRACKTYPE_VIDEO, make_cues |-> TRUE,
                     items |-> PairItems(2, TRUE)] }
      [] mode = "demux" ->
             IF k = 1
             THEN { [ttype |-> TRACKTYPE_VIDEO, make_cues |-> TRUE, items |-> it] :
                    it \in DemuxItems }
             ELSE { [ttype |-> TRACKTYPE_AUDIO, make_cues |-> FALSE,
                     items |-> PairItems(None, TRUE)] }
      [] mode = "merge" ->
             { [ttype |-> tt, make_cues |-> FALSE, items |-> it] :
               tt \in {TRACKTYPE_VIDEO, TRACKTYPE_AUDIO, TRACKTYPE_SUB},
               it \in MergeItems }
      [] mode = "tracks" ->
             { [ttype |-> tt, make_cues |-> FALSE, items |-> it] :
               tt \in {TRACKTYPE_VIDEO, TRACKTYPE_AUDIO, TRACKTYPE_SUB},
               it \in { <<>>, <<[tv |-> 0, size |-> 1, kf |-> TRUE,
                                 dur |-> None]>> } }

\* Greatest number of tracks a run adds, by the kind of run
TrackLimit(mode) == IF mode = "tracks" THEN MaxAdds ELSE MaxTracks

\* MatroskaBuilder(tcs, dur, ts, lace_mask) with the class attributes
\* bc_old_mplayer and bc_vlc
MatroskaBuilder(mode, tcs, dur, lace_mask, old_mplayer, vlc) ==
    [mode |-> mode, tcs |-> tcs, dur |-> dur, ts |-> 978307201,
     uid |-> Rep(165, 16), lace_mask |-> lace_mask,
     bc_old_mplayer |-> old_mplayer, bc_vlc |-> vlc]

MuxStart ==
    /\ VIntIdle
    /\ ElemIdle
    /\ MainIdle
    /\ MoreIdle
    /\ mk_adds = 0
    /\ mk_tracks = <<>>
    /\ mk_frames = <<>>
    /\ mk_pc = "building"
    /\ mk_out = NoOut

\* Lacing runs: every lace mask, the class attributes as the code sets them
LaceInit ==
    /\ MuxStart
    /\ \E lm \in 0..7 :
           mk_cfg = MatroskaBuilder("lace", 1000000, None, lm, TRUE, TRUE)

\* Cluster runs: the compatibility attributes as the code sets them, with
\* bc_old_mplayer off, and with both off; 5 seconds below and above 2^16
\* ticks
TimeInit ==
    /\ MuxStart
    /\ \E tcs \in {1000000, 62500},
          bc \in {<<TRUE, TRUE>>, <<FALSE, TRUE>>, <<FALSE, FALSE>>} :
           mk_cfg = MatroskaBuilder("time", tcs, None, 7, bc[1], bc[2])

\* Track list runs
TracksInit ==
    /\ MuxStart
    /\ \E lm \in {0, 7}, dur \in {None, 2} :
           mk_cfg = MatroskaBuilder("tracks", 1000000, dur, lm, TRUE, TRUE)

\* Merge runs: tracks are added, sorted by type and written
MergeInit ==
    /\ MuxStart
    /\ \E lm \in {0, 7} :
           mk_cfg = MatroskaBuilder("merge", 1000000, None, lm, TRUE, TRUE)

\* Runs with frames of equal size: every lace mask, the class attributes
\* as the code sets them
EqualInit ==
    /\ MuxStart
    /\ \E lm \in 0..7 :
           mk_cfg = MatroskaBuilder("equal", 1000000, None, lm, TRUE, TRUE)

\* Demuxer runs: the builder make_mkvb creates, with and without a
\* duration
DemuxInit ==
    /\ MuxStart
    /\ \E dur \in {None, 2} :
           mk_cfg = MatroskaBuilder("demux", 1000000, dur, _MATROSKA_LT_ANY,
                                    TRUE, TRUE)

\* mkvb.add_track(data, ttype, codec, codec_init_data, make_cues, ...)
MuxAddTrack ==
    /\ mk_pc = "building"
    /\ mk_adds < TrackLimit(mk_cfg.mode)
    /\ \E inp \in TrackInputs(mk_cfg.mode, mk_adds + 1) :
           LET uid == mk_adds + 1
               r == add_track(mk_cfg, mk_tracks, mk_frames,
                              track_data(uid, inp.items), inp.ttype, <<uid>>,
                              inp.make_cues)
           IN  /\ mk_tracks' = r.tracks
               /\ mk_frames' = r.frames
    /\ mk_adds' = mk_adds + 1
    /\ UNCHANGED <<mk_cfg, mk_pc, mk_out, vintVars, elemVars, mainVars, moreVars>>

\* mkvb.add_track_by_entry(data, te, make_cues) with a track entry read
\* from a file, where it had TrackNumber and TrackUID 9
MuxAddTrackByEntry ==
    /\ mk_pc = "building"
    /\ mk_cfg.mode = "tracks"
    /\ mk_adds < TrackLimit(mk_cfg.mode)
    /\ \E tt \in {TRACKTYPE_VIDEO, TRACKTYPE_AUDIO, TRACKTYPE_SUB} :
           LET uid == mk_adds + 1
               te0 == _build_track(mk_cfg, <<>>, tt, <<uid>>, FALSE)
               te == set_sub(set_sub(te0,
                                 MatroskaElementUInt(ID.TrackNumber, ToBig(9))),
                             MatroskaElementUInt(ID.TrackUID, ToBig(9)))
               r == add_track_by_entry(mk_cfg, mk_tracks, mk_frames,
                        track_data(uid, <<[tv |-> 0, size |-> 1, kf |-> TRUE,
                                           dur |-> None]>>),
                        te, FALSE)
           IN  /\ mk_tracks' = r.tracks
               /\ mk_frames' = r.frames
    /\ mk_adds' = mk_adds + 1
    /\ UNCHANGED <<mk_cfg, mk_pc, mk_out, vintVars, elemVars, mainVars, moreVars>>

\* mkvb.drop_track(track.get_track_id()) for a track of the builder
MuxDropTrack ==
    /\ mk_pc = "building"
    /\ \E i \in 1..Len(mk_tracks) :
           LET r == drop_track(mk_tracks, mk_frames, get_track_id(mk_tracks[i]))
           IN  /\ mk_tracks' = r.tracks
               /\ mk_frames' = r.frames
               /\ mk_pc' = IF r.err = "" THEN "building" ELSE r.err
    /\ UNCHANGED <<mk_cfg, mk_adds, mk_out, vintVars, elemVars, mainVars, moreVars>>

\* mkvb.sort_tracks()
MuxSortTracks ==
    /\ mk_pc = "building"
    /\ LET r == sort_tracks(mk_tracks, mk_frames)
       IN  /\ mk_tracks' = r.tracks
           /\ mk_frames' = r.frames
           /\ mk_pc' = IF r.err = "" THEN "building" ELSE r.err
    /\ UNCHANGED <<mk_cfg, mk_adds, mk_out, vintVars, elemVars, mainVars, moreVars>>

\* mkvb.write_to_file(f)
MuxWriteToFile ==
    /\ mk_pc = "building"
    /\ \E r \in {builder_write_to_file(mk_cfg, mk_tracks, mk_frames)} :
           /\ mk_out' = r.out
           /\ mk_pc' = IF r.err = "" THEN "written" ELSE r.err
    /\ UNCHANGED <<mk_cfg, mk_adds, mk_tracks, mk_frames, vintVars, elemVars,
                   mainVars, moreVars>>

MuxNext == MuxAddTrack \/ MuxWriteToFile

TracksNext ==
    MuxAddTrack \/ MuxAddTrackByEntry \/ MuxDropTrack \/ MuxSortTracks

SpecLace == LaceInit /\ [][MuxNext]_vars

SpecTime == TimeInit /\ [][MuxNext]_vars

SpecTracks == TracksInit /\ [][TracksNext]_vars

SpecEqual == EqualInit /\ [][MuxNext]_vars

SpecDemux == DemuxInit /\ [][MuxNext]_vars

MergeNext == MuxAddTrack \/ MuxSortTracks \/ MuxWriteToFile

SpecMerge == MergeInit /\ [][MergeNext]_vars

(* ------------------------------------------------------------------ *)
(* yavdlt.main: the loop over the videos                               *)
(* ------------------------------------------------------------------ *)

\* The base class of each exception class a fetch_data call may raise
exc_base(cls) ==
    CASE cls = "YTLoginRequired" -> "YTError"
      [] cls = "YTError" -> "Exception"
      [] cls = "FLVParserError" -> "ContainerParserError"
      [] cls = "MovParserError" -> "ContainerParserError"
      [] cls = "ContainerParserError" -> "ContainerError"
      [] cls = "ContainerCodecError" -> "ContainerError"
      [] cls = "MatroskaError" -> "MatroskaBaseError"
      [] cls = "MatroskaBaseError" -> "ContainerError"
      [] cls = "ContainerError" -> "Exception"
      [] OTHER -> "BaseException"

RECURSIVE isinstance(_, _)
\* isinstance(exc, cls) for an exception of class exc
isinstance(exc, cls) ==
    IF exc = cls THEN TRUE
    ELSE IF exc = "BaseException" THEN FALSE
    ELSE isinstance(exc_base(exc), cls)

\* What ref.fetch_data(dtypemask) does for one video: it returns ("") or
\* raises; the demuxers raise FLVParserError and MovParserError, the builder
\* ContainerCodecError and MatroskaError, and fetch_data catches none of them
FetchOutcomes ==
    {"", "YTError", "YTLoginRequired", "FLVParserError", "MovParserError",
     "ContainerCodecError", "MatroskaError"}

\* main() up to the loop, for a list of up to MaxVids videos
MainInit ==
    /\ VIntIdle
    /\ ElemIdle
    /\ MuxIdle
    /\ MoreIdle
    /\ vid_res \in UNION {[1..n -> FetchOutcomes] : n \in 0..MaxVids}
    /\ vid_i = 1
    /\ vids_failed = <<>>
    /\ vid_log = <<>>
    /\ main_pc = "loop"
    /\ exit_status = None

\* One pass of "for vid in vids": an exception that is no YTError leaves
\* main, and the interpreter ends the process with status 1
MainFetch ==
    /\ main_pc = "loop"
    /\ vid_i <= Len(vid_res)
    /\ LET exc == vid_res[vid_i]
           log1 == Append(vid_log, [level |-> 20, msg |-> "Fetching data",
                                    vid |-> vid_i])
       IN  IF exc = ""
           THEN /\ vid_log' = log1
                /\ vid_i' = vid_i + 1
                /\ UNCHANGED <<vids_failed, main_pc, exit_status>>
           ELSE IF isinstance(exc, "YTError")
           THEN /\ vid_log' = Append(log1, [level |-> 30,
                                            msg |-> "Failed to retrieve video",
                                            vid |-> vid_i])
                /\ vids_failed' = Append(vids_failed, vid_i)
                /\ vid_i' = vid_i + 1
                /\ UNCHANGED <<main_pc, exit_status>>
           ELSE /\ vid_log' = log1
                /\ main_pc' = "exit"
                /\ exit_status' = 1
                /\ UNCHANGED <<vid_i, vids_failed>>
    /\ UNCHANGED <<vid_res, vintVars, elemVars, muxVars, moreVars>>

\* main() after the loop; it returns None and the process ends with status 0
MainDone ==
    /\ main_pc = "loop"
    /\ vid_i > Len(vid_res)
    /\ vid_log' = (IF vids_failed # <<>>
                   THEN Append(vid_log, [level |-> 30,
                                         msg |-> "Failed to retrieve videos",
                                         vid |-> 0])
                   ELSE vid_log)
                  \o <<[level |-> 20, msg |-> "All done", vid |-> 0]>>
    /\ main_pc' = "exit"
    /\ exit_status' = 0
    /\ UNCHANGED <<vid_i, vid_res, vids_failed, vintVars, elemVars, muxVars, moreVars>>

MainNext == MainFetch \/ MainDone

SpecMain == MainInit /\ [][MainNext]_vars

(* ------------------------------------------------------------------ *)
(* YTVideoRef.fetch_data: the files of one video                       *)
(* ------------------------------------------------------------------ *)

DATATYPE_VIDEO == 1

DATATYPE_TIMEDTEXT == 4

DATATYPE_ANNOTATIONS == 8

\* dtm & bit for a data type bit
dtm_has(dtm, bit) == (dtm \div bit) % 2 = 1

\* The data type masks of the three data types
DtmValues == {v + t + a : v \in {0, DATATYPE_VIDEO}, t \in {0, DATATYPE_TIMEDTEXT},
                          a \in {0, DATATYPE_ANNOTATIONS}}

\* The subtitle and MKV files fetch_data opens for writing
OutputFiles == {"mkv.tmp", "ass", "nospam.ass", "tt1.ass", "tt2.ass"}

\* shutil.move(fn_tmp, fn_final)
_move_video(fs, fn_tmp) ==
    [fs EXCEPT !["final"] = fs[fn_tmp], ![fn_tmp] = "none"]

\* The statement after mkvb.write_to_file(f_out) that goes on although the
\* call raised
mkv_written_anyway(out) == "mkv_close"

\* The statement after mkvb.write_to_file(f_out): f_out.close() when the
\* call returned; an exception leaves fetch_data
mkv_written(out) == IF out = "" THEN "mkv_close" ELSE "raised"

\* The statement after the write_to_file(f) of a subtitle file
ass_written(out) == IF out = "" THEN "ass_close" ELSE "raised"

\* A YTVideoRef with its options, the data types asked for, and the files
\* an earlier run left
FetchInit ==
    /\ VIntIdle
    /\ ElemIdle
    /\ MuxIdle
    /\ MainIdle
    /\ DlIdle
    /\ AuxIdle
    /\ \E mkv \in BOOLEAN, drop \in BOOLEAN, dtm \in DtmValues,
          fin \in {"none", "complete"}, raw \in {"none", "partial", "complete"} :
           /\ fd_cfg = [mode |-> "fetch", make_mkv |-> mkv, drop_tt |-> drop,
                        dtm |-> dtm, final_before |-> fin # "none"]
           /\ fd_fs = [n \in FileNames |->
                          IF n = "final" THEN fin
                          ELSE IF n = "raw.tmp" THEN raw ELSE "none"]
    /\ fd_pc = "pick"
    /\ fd_open = {}
    /\ fd_q = <<>>
    /\ fd_ret = ""
    /\ fd_err = ""

\* fetch_data up to the test for a final MKV file that exists already
FdPick ==
    /\ fd_pc = "pick"
    /\ \E picked \in BOOLEAN :
           IF ~picked
           THEN fd_pc' = "raised" /\ fd_err' = "YTError"
           ELSE /\ fd_pc' = IF fd_cfg.make_mkv /\ fd_fs["final"] # "none"
                            THEN "returned" ELSE "video"
                /\ fd_err' = fd_err
    /\ UNCHANGED <<fd_cfg, fd_fs, fd_open, fd_q, fd_ret, vintVars, elemVars,
                   muxVars, mainVars,
                   dlVars, auxVars>>

\* fetch_data: "if (dtm & DATATYPE_VIDEO)", with what fetch_video and the
\* demuxer do
FdVideo ==
    /\ fd_pc = "video"
    /\ IF ~dtm_has(fd_cfg.dtm, DATATYPE_VIDEO) \/ fd_fs["final"] # "none"
       THEN /\ fd_pc' = "annotations"
            /\ UNCHANGED <<fd_fs, fd_open, fd_err,
                   dlVars, auxVars>>
       ELSE \E dl \in {"", "YTError"},
               demux \in {"", "FLVParserError", "MovParserError",
                          "ContainerCodecError"} :
               /\ fd_open' = fd_open \cup {"raw.tmp"}
               /\ IF dl # ""
                  THEN /\ fd_fs' = [fd_fs EXCEPT !["raw.tmp"] = "partial"]
                       /\ fd_pc' = "raised"
                       /\ fd_err' = dl
                  ELSE IF fd_cfg.make_mkv
                  THEN /\ fd_fs' = [fd_fs EXCEPT !["raw.tmp"] = "complete"]
                       /\ fd_pc' = IF demux = "" THEN "annotations" ELSE "raised"
                       /\ fd_err' = demux
                  ELSE /\ fd_fs' = _move_video(
                              [fd_fs EXCEPT !["raw.tmp"] = "complete"], "raw.tmp")
                       /\ fd_pc' = "annotations"
                       /\ fd_err' = fd_err
    /\ UNCHANGED <<fd_cfg, fd_q, fd_ret, vintVars, elemVars, muxVars, mainVars,
                   dlVars, auxVars>>

\* fetch_data: "if (dtm & DATATYPE_ANNOTATIONS)"; subs is what
\* fetch_annotations found
FdAnnotations ==
    /\ fd_pc = "annotations"
    /\ \E subs \in {"none", "sublike", "nospam"} :
           IF ~dtm_has(fd_cfg.dtm, DATATYPE_ANNOTATIONS) \/ subs = "none"
                  \/ fd_cfg.make_mkv
           THEN fd_pc' = "timedtext" /\ UNCHANGED <<fd_q, fd_ret,
                   dlVars, auxVars>>
           ELSE /\ fd_pc' = "ass_open"
                /\ fd_q' = IF subs = "nospam" THEN <<"ass", "nospam.ass">>
                           ELSE <<"ass">>
                /\ fd_ret' = "timedtext"
    /\ UNCHANGED <<fd_cfg, fd_fs, fd_open, fd_err, vintVars, elemVars, muxVars,
                   mainVars,
                   dlVars, auxVars>>

\* fetch_data: "if (dtm & DATATYPE_TIMEDTEXT)"; n is len(ttd)
FdTimedText ==
    /\ fd_pc = "timedtext"
    /\ \E n \in 0..2 :
           IF ~dtm_has(fd_cfg.dtm, DATATYPE_TIMEDTEXT) \/ n = 0
                  \/ fd_cfg.make_mkv
           THEN fd_pc' = "mkv" /\ UNCHANGED <<fd_q, fd_ret,
                   dlVars, auxVars>>
           ELSE /\ fd_pc' = "ass_open"
                /\ fd_q' = SubSeq(<<"tt1.ass", "tt2.ass">>, 1, n)
                /\ fd_ret' = "mkv"
    /\ UNCHANGED <<fd_cfg, fd_fs, fd_open, fd_err, vintVars, elemVars, muxVars,
                   mainVars,
                   dlVars, auxVars>>

\* f = open(fn, 'wb') for the next subtitle file
FdAssOpen ==
    /\ fd_pc = "ass_open"
    /\ fd_fs' = [fd_fs EXCEPT ![fd_q[1]] = "partial"]
    /\ fd_open' = fd_open \cup {fd_q[1]}
    /\ fd_pc' = "ass_write"
    /\ UNCHANGED <<fd_cfg, fd_q, fd_ret, fd_err, vintVars, elemVars, muxVars,
                   mainVars,
                   dlVars, auxVars>>

\* sts.write_to_file(f): it returns or a write raises
FdAssWrite ==
    /\ fd_pc = "ass_write"
    /\ \E out \in {"", "OSError"} :
           /\ fd_pc' = ass_written(out)
           /\ fd_err' = out
           /\ fd_fs' = IF out = "" THEN [fd_fs EXCEPT ![fd_q[1]] = "complete"]
                       ELSE fd_fs
    /\ UNCHANGED <<fd_cfg, fd_open, fd_q, fd_ret, vintVars, elemVars, muxVars,
                   mainVars,
                   dlVars, auxVars>>

\* f.close() of a subtitle file
FdAssClose ==
    /\ fd_pc = "ass_close"
    /\ fd_open' = fd_open \ {fd_q[1]}
    /\ fd_q' = Tail(fd_q)
    /\ fd_pc' = IF Tail(fd_q) = <<>> THEN fd_ret ELSE "ass_open"
    /\ UNCHANGED <<fd_cfg, fd_fs, fd_ret, fd_err, vintVars, elemVars, muxVars,
                   mainVars,
                   dlVars, auxVars>>

\* fetch_data: "if (self.make_mkv)", the tracks dropped and sorted
FdMkvPrepare ==
    /\ fd_pc = "mkv"
    /\ IF ~fd_cfg.make_mkv THEN fd_pc' = "returned" /\ fd_err' = fd_err
       ELSE \E out \in {"", "KeyError", "IndexError"} :
                IF fd_cfg.drop_tt /\ out # ""
                THEN fd_pc' = "raised" /\ fd_err' = out
                ELSE fd_pc' = "mkv_open" /\ fd_err' = fd_err
    /\ UNCHANGED <<fd_cfg, fd_fs, fd_open, fd_q, fd_ret, vintVars, elemVars,
                   muxVars, mainVars,
                   dlVars, auxVars>>

\* f_out = open(fn_out, 'w+b')
FdMkvOpen ==
    /\ fd_pc = "mkv_open"
    /\ fd_fs' = [fd_fs EXCEPT !["mkv.tmp"] = "partial"]
    /\ fd_open' = fd_open \cup {"mkv.tmp"}
    /\ fd_pc' = "mkv_write"
    /\ UNCHANGED <<fd_cfg, fd_q, fd_ret, fd_err, vintVars, elemVars, muxVars,
                   mainVars,
                   dlVars, auxVars>>

\* mkvb.write_to_file(f_out): it returns, or raises what the builder raises
FdMkvWrite ==
    /\ fd_pc = "mkv_write"
    /\ \E out \in {"", "MatroskaError", "UnboundLocalError", "IndexError",
                   "struct.error", "OSError"} :
           /\ fd_pc' = mkv_written(out)
           /\ fd_err' = out
           /\ fd_fs' = IF out = "" THEN [fd_fs EXCEPT !["mkv.tmp"] = "complete"]
                       ELSE fd_fs
    /\ UNCHANGED <<fd_cfg, fd_open, fd_q, fd_ret, vintVars, elemVars, muxVars,
                   mainVars,
                   dlVars, auxVars>>

\* f_out.close()
FdMkvClose ==
    /\ fd_pc = "mkv_close"
    /\ fd_open' = fd_open \ {"mkv.tmp"}
    /\ fd_pc' = "mkv_move"
    /\ UNCHANGED <<fd_cfg, fd_fs, fd_q, fd_ret, fd_err, vintVars, elemVars,
                   muxVars, mainVars,
                   dlVars, auxVars>>

\* self._move_video(fn_out)
FdMove ==
    /\ fd_pc = "mkv_move"
    /\ fd_fs' = _move_video(fd_fs, "mkv.tmp")
    /\ fd_pc' = "unlink"
    /\ UNCHANGED <<fd_cfg, fd_open, fd_q, fd_ret, fd_err, vintVars, elemVars,
                   muxVars, mainVars,
                   dlVars, auxVars>>

\* os.unlink(vf.name); vf is bound by the video branch only
FdUnlink ==
    /\ fd_pc = "unlink"
    /\ IF dtm_has(fd_cfg.dtm, DATATYPE_VIDEO)
       THEN /\ fd_fs' = [fd_fs EXCEPT !["raw.tmp"] = "none"]
            /\ fd_pc' = "returned"
            /\ fd_err' = fd_err
       ELSE /\ fd_fs' = fd_fs
            /\ fd_pc' = "raised"
            /\ fd_err' = "UnboundLocalError"
    /\ UNCHANGED <<fd_cfg, fd_open, fd_q, fd_ret, vintVars, elemVars, muxVars,
                   mainVars,
                   dlVars, auxVars>>

\* The process is terminated while fetch_data runs
FdKill ==
    /\ fd_pc \notin {"idle", "returned", "raised", "killed"}
    /\ fd_pc' = "killed"
    /\ UNCHANGED <<fd_cfg, fd_fs, fd_open, fd_q, fd_ret, fd_err, vintVars,
                   elemVars, muxVars, mainVars,
                   dlVars, auxVars>>

FetchNext ==
    \/ FdPick \/ FdVideo \/ FdAnnotations \/ FdTimedText
    \/ FdAssOpen \/ FdAssWrite \/ FdAssClose
    \/ FdMkvPrepare \/ FdMkvOpen \/ FdMkvWrite \/ FdMkvClose \/ FdMove
    \/ FdUnlink \/ FdKill

SpecFetch == FetchInit /\ [][FetchNext]_vars

(* ------------------------------------------------------------------ *)
(* YTVideoRef.fetch_video: download and resume                         *)
(* ------------------------------------------------------------------ *)

\* fetch_video: plen
plen == 128

\* The remote video: content_length bytes, byte i being i
RemoteData(content_length) == List([i \in 1..content_length |-> i % 256])

\* The local files a run can find: nothing, or a part of the remote data
\* of flen bytes, as it was downloaded or with one byte changed since
LocalFiles(content_length) ==
    LET remote == RemoteData(content_length)
        lens == {0, 1, plen - 1, plen} \cup (plen + 1)..(content_length + 1)
        part(flen) == List([i \in 1..flen |-> IF i <= content_length
                                             THEN remote[i] ELSE 0])
        changed(flen) == {flen, flen - plen + 1, flen - plen} \cap 1..flen
    IN  {part(flen) : flen \in lens}
            \cup UNION {{[part(flen) EXCEPT ![k] = 255] : k \in changed(flen)} :
                           flen \in lens}

\* f.truncate() at the position pos
truncate(f, pos) == SubSeq(f, 1, Min2(pos, Len(f))) \o Rep(0, pos - Len(f))

\* fetch_video: "if (data != prefix_data)" that lets every tail pass
tail_differs_never(data, prefix_data) == FALSE

\* fetch_video: "if (data != prefix_data)"
tail_differs(data, prefix_data) == data # prefix_data

\* res.read(n): the next n bytes of the body, fewer at its end
res_read(res, n) == SubSeq(res, 1, Min2(n, Len(res)))

\* The body the server sends for a request: from the start of the range it
\* honours, the last cut bytes lost with the connection
response_body(cfg, off_start) ==
    LET from == IF cfg.code = 206 THEN off_start ELSE 0
        full == SubSeq(RemoteData(cfg.content_length), from + 1,
                       cfg.content_length)
    IN  SubSeq(full, 1, Max2(Len(full) - cfg.cut, 0))

\* int(res.headers.get('content-length')), None without a usable header
response_cl_r(cfg, off_start) ==
    IF cfg.cl_r = "none" THEN None
    ELSE (cfg.content_length - (IF cfg.code = 206 THEN off_start ELSE 0))
             + (IF cfg.cl_r = "other" THEN 1 ELSE 0)

\* A video of plen + DlSpan bytes, the file an earlier run left, and the
\* server's behaviour: its status code, its content-length header and the
\* bytes the connection loses
DlInit ==
    /\ VIntIdle
    /\ ElemIdle
    /\ MuxIdle
    /\ MainIdle
    /\ FetchIdle
    /\ AuxIdle
    /\ \E local \in LocalFiles(plen + DlSpan), code \in {200, 206, 203},
          cl_r \in {"none", "body", "other"}, cut \in {0, 1, DlSpan} :
           dl_cfg = [mode |-> "fetch", content_length |-> plen + DlSpan,
                     local |-> local, code |-> code, cl_r |-> cl_r, cut |-> cut]
    /\ dl_pc = "open"
    /\ dl_file = dl_cfg.local
    /\ dl_pos = 0
    /\ dl_req = NoReq
    /\ dl_res = <<>>
    /\ dl_clg = 0

\* fetch_video: the file opened, f.seek(0,2) and the tests of flen
DlOpen ==
    /\ dl_pc = "open"
    /\ dl_pos' = Len(dl_file)
    /\ dl_pc' = IF Len(dl_file) > dl_cfg.content_length THEN "raised"
                ELSE IF Len(dl_file) = dl_cfg.content_length THEN "returned"
                ELSE "request"
    /\ UNCHANGED <<dl_cfg, dl_file, dl_req, dl_res, dl_clg, vintVars, elemVars,
                   muxVars, mainVars, fetchVars,
                   auxVars>>

\* fetch_video: prefix_data read, the request sent, and the tests of the
\* response up to "cl_g = off_start"
DlRequest ==
    /\ dl_pc = "request"
    /\ \E off_start \in {Max2(Len(dl_file) - plen, 0)} :
       \E resumed \in {off_start > 0 /\ dl_cfg.code # 200} :
           /\ dl_req' = [off_start |-> IF resumed THEN off_start ELSE 0,
                         prefix_data |-> IF resumed
                                         THEN SubSeq(dl_file, off_start + 1,
                                                     Len(dl_file))
                                         ELSE <<>>,
                         range |-> IF off_start > 0 THEN off_start ELSE None]
           /\ dl_res' = response_body(dl_cfg, off_start)
           /\ IF off_start > 0 /\ dl_cfg.code \notin {200, 206}
              THEN dl_pc' = "raised" /\ UNCHANGED <<dl_file, dl_pos, dl_clg>>
              ELSE IF response_cl_r(dl_cfg, off_start) \notin {None, 0}
                      /\ response_cl_r(dl_cfg, off_start)
                             # dl_cfg.content_length
                                   - (IF resumed THEN off_start ELSE 0)
              THEN /\ dl_pc' = "raised"
                   /\ dl_pos' = IF off_start > 0 THEN Len(dl_file) ELSE dl_pos
                   /\ UNCHANGED <<dl_file, dl_clg>>
              ELSE /\ dl_pc' = "prefix"
                   /\ dl_file' = IF resumed THEN dl_file ELSE <<>>
                   /\ dl_pos' = IF resumed THEN Len(dl_file) ELSE 0
                   /\ dl_clg' = IF resumed THEN off_start ELSE 0
    /\ UNCHANGED <<dl_cfg, vintVars, elemVars, muxVars, mainVars, fetchVars,
                   auxVars>>

\* fetch_video: "if (prefix_data)", the tail of the local file compared
\* with the start of the response
DlPrefix ==
    /\ dl_pc = "prefix"
    /\ IF dl_req.prefix_data = <<>>
       THEN dl_pc' = "read" /\ UNCHANGED <<dl_res, dl_clg>>
       ELSE \E data \in {res_read(dl_res, Len(dl_req.prefix_data))} :
                /\ dl_res' = SubSeq(dl_res, Len(data) + 1, Len(dl_res))
                /\ IF Len(data) # Len(dl_req.prefix_data)
                      \/ tail_differs(data, dl_req.prefix_data)
                   THEN dl_pc' = "raised" /\ dl_clg' = dl_clg
                   ELSE /\ dl_pc' = "read"
                        /\ dl_clg' = dl_clg + Len(dl_req.prefix_data)
    /\ UNCHANGED <<dl_cfg, dl_file, dl_pos, dl_req, vintVars, elemVars, muxVars,
                   mainVars, fetchVars,
                   auxVars>>

\* fetch_video: one turn of "while (True)"; a read returns what has arrived
\* of the body, and nothing at its end
DlRead ==
    /\ dl_pc = "read"
    /\ \E n \in {1, Len(dl_res)} :
       \E data_read \in {res_read(dl_res, n)} :
           IF Len(data_read) = 0
           THEN dl_pc' = "finish" /\ UNCHANGED <<dl_file, dl_pos, dl_res, dl_clg>>
           ELSE /\ dl_clg' = dl_clg + Len(data_read)
                /\ dl_file' = file_write_at(dl_file, dl_pos, data_read)
                /\ dl_pos' = dl_pos + Len(data_read)
                /\ dl_res' = SubSeq(dl_res, Len(data_read) + 1, Len(dl_res))
                /\ dl_pc' = dl_pc
    /\ UNCHANGED <<dl_cfg, dl_req, vintVars, elemVars, muxVars, mainVars,
                   fetchVars,
                   auxVars>>

\* fetch_video: the test of cl_g, f.truncate() and the return
DlFinish ==
    /\ dl_pc = "finish"
    /\ IF dl_clg # dl_cfg.content_length
       THEN dl_pc' = "raised" /\ dl_file' = dl_file
       ELSE dl_pc' = "returned" /\ dl_file' = truncate(dl_file, dl_pos)
    /\ UNCHANGED <<dl_cfg, dl_pos, dl_req, dl_res, dl_clg, vintVars, elemVars,
                   muxVars, mainVars, fetchVars,
                   auxVars>>

DlNext == DlOpen \/ DlRequest \/ DlPrefix \/ DlRead \/ DlFinish

SpecDl == DlInit /\ [][DlNext]_vars

(* ------------------------------------------------------------------ *)
(* Properties                                                          *)
(* ------------------------------------------------------------------ *)

RECURSIVE AllElements(_)
\* An element followed by its descendants at every nesting level
AllElements(e) ==
    <<e>> \o Concat(List([i \in 1..Len(e.sub) |-> AllElements(e.sub[i])]))

\* The type id and the size field read back from the bytes of an element
ReadHeader(w) ==
    LET t == build_from_bindata(w, FALSE)
        sz == build_from_bindata(SubSeq(w, t.len + 1, Len(w)), FALSE)
    IN  [ok |-> t.err = "" /\ sz.err = "", type |-> t.val, type_len |-> t.len,
         size |-> sz.val, size_len |-> sz.len]

\* C2: every element written, at every nesting level of the tree, takes
\* exactly get_size() bytes, and these are the bytes of its id, of its size
\* field and of the body whose length the size field announces; the writer's
\* sanity checks never fire.
C2_WrittenSizeIsGetSize ==
    /\ el_pc \in {"idle", "built", "written"}
    /\ el_pc = "written" =>
         /\ Len(el_out) = get_size(el)
         /\ \A i \in 1..Len(AllElements(el)) :
                LET e == AllElements(el)[i]
                    w == write_to_file(e)
                    h == ReadHeader(w)
                IN  /\ Len(w) = get_size(e)
                    /\ h.ok
                    /\ h.type = PyInt(e.type)
                    /\ get_size(e) = h.type_len + h.size_len + PyVal(h.size)

\* C2 witness: a tree of depth one or more was written that holds a Void
\* whose size field is padded by one byte
C2_Witness ==
    /\ el_pc = "written"
    /\ el_depth >= 1
    /\ \E i \in 1..Len(AllElements(el)) :
           LET e == AllElements(el)[i]
           IN  e.cls = "void" /\ e.bd_size_size = vsize(Len(e.data)) + 1

\* C3: decoding the bytes get_bindata produced for a value of the legal
\* domain returns the value and the number of bytes produced, for both
\* signednesses; re-encoding the value decoded from a minimal-length byte
\* string returns that byte string.
C3_VIntRoundTrip ==
    /\ vi_pc = "encoded" => vi_bd # ValueError
    /\ vi_pc = "decoded" =>
           vi_dec = [err |-> "", val |-> vi_val, len |-> Len(vi_bd)]
    /\ (vi_pc = "reencoded"
           /\ Len(vi_bd) = _calc_vint_size(vi_dec.val, vi_signed)) =>
           vi_bd2 = vi_bd

\* C3 witness: the greatest unsigned value, 2^56 - 2, was encoded in eight
\* bytes and decoded
C3_Witness ==
    /\ vi_pc = "decoded"
    /\ ~vi_signed
    /\ vi_val = val_lim_VInt
    /\ Len(vi_bd) = 8

\* The Block_r elements of a cluster, in the order written: a SimpleBlock
\* itself, the Block of a BlockGroup
cluster_blocks(c) ==
    Concat(List([i \in 1..Len(c.sub) |->
        IF c.sub[i].cls = "block" THEN <<c.sub[i]>>
        ELSE SelectSeq(c.sub[i].sub, LAMBDA e : e.cls = "block")]))

\* The payloads the written blocks of track tn carry, in block order and in
\* lace order inside a block
track_payloads(clusters, tn) ==
    LET bl == SelectSeq(Concat(List([k \in 1..Len(clusters) |->
                                        cluster_blocks(clusters[k])])),
                        LAMBDA e : e.tracknum = tn)
    IN  Concat(List([i \in 1..Len(bl) |-> bl[i].frame_data]))

\* C1: once the file is written, the payloads carried by the blocks of each
\* track, in block order and lace order, are the payloads of the frames that
\* were added for the track, in the order they were added.
C1_PayloadsPreserved ==
    mk_pc = "written" =>
        \A i \in 1..Len(mk_frames) :
            track_payloads(mk_out.clusters, mk_frames[i].key)
                = frame_data_of(mk_frames[i].val)


\* The block things of a cluster, in the order written: its SimpleBlock and
\* BlockGroup children
cluster_blockthings(c) ==
    SelectSeq(c.sub, LAMBDA e : e.type \in {ID.SimpleBlock, ID.BlockGroup})

\* The Block_r of a block thing
block_of(bt) ==
    IF bt.cls = "block" THEN bt
    ELSE bt.sub[CHOOSE i \in 1..Len(bt.sub) : bt.sub[i].cls = "block"]

\* A block thing marked as a keyframe: a SimpleBlock with the keyframe flag,
\* a BlockGroup without a ReferenceBlock
bt_is_keyframe(bt) ==
    IF bt.cls = "block" THEN (bt.flags \div 128) % 2 = 1
    ELSE \A i \in 1..Len(bt.sub) : bt.sub[i].type # ID.ReferenceBlock

\* The CueTrackPositions of a Cues element as (track, pos, block, clust_id)
cue_entries(cues) ==
    LET cps == SelectSeq(cues.sub, LAMBDA e : e.type = ID.CuePoint)
        ctps == Concat(List([i \in 1..Len(cps) |->
                    SelectSeq(cps[i].sub,
                              LAMBDA e : e.type = ID.CueTrackPositions)]))
    IN  List([i \in 1..Len(ctps) |->
            LET ccp == get_sub_by_cls(ctps[i], ID.CueClusterPosition)
            IN  [track |-> FromBig(get_sub_by_cls(ctps[i], ID.CueTrack).uval),
                 pos |-> FromBig(ccp.uval),
                 block |-> FromBig(get_sub_by_cls(ctps[i],
                                                  ID.CueBlockNumber).uval),
                 clust_id |-> ccp.clust_id]])

\* The bytes of the file from offset off on are the bytes of element e
written_at(f, off, e) ==
    LET w == write_to_file(e)
    IN  SubSeq(f, off + 1, off + Len(w)) = w

\* C4: once the file is written, the Cues of the second pass are in the file
\* and for each of their entries a cluster was written at the entry's
\* CueClusterPosition counted from the start of the Segment body; the block
\* thing at index CueBlockNumber of that cluster exists, is of track CueTrack
\* and is a keyframe.
C4_CuesNameWrittenKeyframes ==
    mk_pc = "written" =>
        /\ written_at(mk_out.f, mk_out.cue_off, mk_out.cues)
        /\ \A i \in 1..Len(cue_entries(mk_out.cues)) :
               LET ce == cue_entries(mk_out.cues)[i]
               IN  \E k \in 1..Len(mk_out.clusters) :
                       LET bts == cluster_blockthings(mk_out.clusters[k])
                       IN  /\ mk_out.clust_offs[k] = ce.pos
                           /\ written_at(mk_out.f, mk_out.seg_off + ce.pos,
                                         mk_out.clusters[k])
                           /\ ce.block + 1 \in 1..Len(bts)
                           /\ block_of(bts[ce.block + 1]).tracknum = ce.track
                           /\ bt_is_keyframe(bts[ce.block + 1])

\* C4 witness: a written file with a cue entry that names a block after the
\* first one, in a cluster after the first one
C4_Witness ==
    /\ mk_pc = "written"
    /\ \E i \in 1..Len(cue_entries(mk_out.cues)) :
           LET ce == cue_entries(mk_out.cues)[i]
           IN  ce.block >= 1 /\ ce.pos > mk_out.clust_offs[1]


\* The base timecode a cluster is written with
cluster_timecode(c) == FromBig(get_sub_by_cls(c, ID.Timecode).uval)

\* C5: no block is refused for its timecode, and every block written stores
\* a timecode within [-2^15, 2^15 - 1] that is the timecode of its first
\* frame minus the base timecode of its cluster.
C5_BlockTimecodeInRange ==
    /\ mk_pc # "struct.error"
    /\ mk_pc = "written" =>
           \A k \in 1..Len(mk_out.clusters) :
               LET c == mk_out.clusters[k]
                   bts == cluster_blockthings(c)
               IN  \A i \in 1..Len(bts) :
                       LET b == block_of(bts[i])
                           fl == dict_get(mk_frames, b.tracknum)
                       IN  /\ b.timecode >= 0 - 32768
                           /\ b.timecode <= 32767
                           /\ \E j \in 1..Len(fl) :
                                  /\ fl[j].data_r = b.frame_data[1]
                                  /\ fl[j].tc = cluster_timecode(c) + b.timecode

\* C5 witness: a written cluster that holds a block at each end of the range
C5_Witness ==
    /\ mk_pc = "written"
    /\ \E k \in 1..Len(mk_out.clusters) :
           LET bts == cluster_blockthings(mk_out.clusters[k])
           IN  /\ \E i \in 1..Len(bts) : block_of(bts[i]).timecode = 0 - 32768
               /\ \E i \in 1..Len(bts) : block_of(bts[i]).timecode = 32767


\* C6 as stated: when a file with two clusters is written, every cue entry
\* holds the Segment-relative offset of its cluster and the Cues element of
\* the second pass ends with a Void child that takes up the freed bytes.
C6_VoidInsideCues ==
    (mk_pc = "written" /\ Len(mk_out.clusters) = 2) =>
        LET ch == mk_out.cues.sub
        IN  /\ \A i \in 1..Len(cue_entries(mk_out.cues)) :
                   LET ce == cue_entries(mk_out.cues)[i]
                   IN  ce.pos = mk_out.clust_offs[ce.clust_id]
            /\ written_at(mk_out.f, mk_out.cue_off, mk_out.cues)
            /\ ch # <<>>
            /\ ch[Len(ch)].type = ID.Void
            /\ get_size(mk_out.cues) = mk_out.cues_sz_base

\* C6 amended: when a file with two clusters is written, the clusters lie at
\* Oc1, right after the bytes of the first pass Cues, and at Oc2, right after
\* the first cluster; every cue entry of the second pass Cues holds the one
\* of Oc1 and Oc2 that is the offset of its cluster; the Cues has no Void
\* child, and the bytes it freed are those of one Void element written right
\* after it, up to the first cluster.
C6_VoidAfterCues ==
    (mk_pc = "written" /\ Len(mk_out.clusters) = 2) =>
        LET Oc1 == (mk_out.cue_off - mk_out.seg_off) + mk_out.cues_sz_base
            Oc2 == Oc1 + get_size(mk_out.clusters[1])
            Oc == <<Oc1, Oc2>>
            sz == get_size(mk_out.cues)
        IN  /\ written_at(mk_out.f, mk_out.seg_off + Oc1, mk_out.clusters[1])
            /\ written_at(mk_out.f, mk_out.seg_off + Oc2, mk_out.clusters[2])
            /\ Len(mk_out.f) = mk_out.seg_off + Oc2
                                   + get_size(mk_out.clusters[2])
            /\ \A i \in 1..Len(cue_entries(mk_out.cues)) :
                   LET ce == cue_entries(mk_out.cues)[i]
                   IN  ce.pos = Oc[ce.clust_id]
            /\ written_at(mk_out.f, mk_out.cue_off, mk_out.cues)
            /\ \A i \in 1..Len(mk_out.cues.sub) :
                   mk_out.cues.sub[i].type # ID.Void
            /\ mk_out.void.cls = "void"
            /\ written_at(mk_out.f, mk_out.cue_off + sz, mk_out.void)
            /\ sz + get_size(mk_out.void) = mk_out.cues_sz_base

\* C6 witness: a written file of two clusters with a cue entry for each
C6_Witness ==
    /\ mk_pc = "written"
    /\ Len(mk_out.clusters) = 2
    /\ \A k \in 1..2 :
           \E i \in 1..Len(cue_entries(mk_out.cues)) :
               cue_entries(mk_out.cues)[i].clust_id = k


\* C7: as long as no call has raised, the track at position k has
\* TrackNumber k, and every key of the frame map is the number of a track of
\* the builder.
C7_TrackNumbersContiguous ==
    mk_pc = "building" =>
        /\ \A k \in 1..Len(mk_tracks) : get_track_number(mk_tracks[k]) = k
        /\ \A i \in 1..Len(mk_frames) : mk_frames[i].key \in 1..Len(mk_tracks)

\* The codec init data a track entry was built with: the mark of the add
\* call that made it
track_mark(te) == get_sub_by_cls(te, ID.CodecPrivate).data[1]

\* The frames were added by the add call of mark uid
frames_of_mark(fl, uid) ==
    \A j \in 1..Len(fl) : fl[j].data_r[1] \div 16 = uid

\* C8: a call of sort_tracks succeeds and leaves the entries it found in the
\* order of their types, video before audio before subtitle, entries of one
\* type in the order they had, numbered 1..n by position, every frame list
\* it found stored under the new number of the entry it was added for.
C8_SortKeepsFramesAttached ==
    [][MuxSortTracks =>
        /\ mk_pc' = "building"
        /\ Len(mk_tracks') = Len(mk_tracks)
        /\ \A k \in 1..Len(mk_tracks') :
               /\ get_track_number(mk_tracks'[k]) = k
               /\ \E i \in 1..Len(mk_tracks) :
                      track_mark(mk_tracks[i]) = track_mark(mk_tracks'[k])
        /\ \A i, j \in 1..Len(mk_tracks') :
               i < j =>
                   /\ get_track_type(mk_tracks'[i])
                          <= get_track_type(mk_tracks'[j])
                   /\ get_track_type(mk_tracks'[i]) = get_track_type(mk_tracks'[j])
                      => \E a, b \in 1..Len(mk_tracks) :
                             /\ a < b
                             /\ track_mark(mk_tracks[a]) = track_mark(mk_tracks'[i])
                             /\ track_mark(mk_tracks[b]) = track_mark(mk_tracks'[j])
        /\ Len(mk_frames') = Len(mk_frames)
        /\ \A i \in 1..Len(mk_frames') :
               /\ mk_frames'[i].key \in 1..Len(mk_tracks')
               /\ frames_of_mark(mk_frames'[i].val,
                                 track_mark(mk_tracks'[mk_frames'[i].key]))
               /\ \E j \in 1..Len(mk_frames) :
                      mk_frames[j].val = mk_frames'[i].val
    ]_vars


\* fetch_data was called for video i
fetched(i) == \E k \in 1..Len(vid_log) :
                  vid_log[k].msg = "Fetching data" /\ vid_log[k].vid = i

\* The failure of video i was logged
failure_logged(i) ==
    \E k \in 1..Len(vid_log) :
        vid_log[k].msg = "Failed to retrieve video" /\ vid_log[k].vid = i

\* C9: when the process has ended, its exit status is 0 exactly if fetch_data
\* raised for no video of the list, and fetch_data was called for every video
\* of the list.
C9_ExitStatusTellsFailure ==
    main_pc = "exit" =>
        /\ exit_status = 0 <=> \A i \in 1..Len(vid_res) : vid_res[i] = ""
        /\ \A i \in 1..Len(vid_res) : fetched(i)

\* C10: when the process has ended, every video for which a demuxer or the
\* builder raised (a container parser error, a codec error, a Matroska
\* error) has its failure logged by the loop, and fetch_data was called for
\* the video after it.
C10_ContainerErrorsLogged ==
    main_pc = "exit" =>
        \A i \in 1..Len(vid_res) :
            isinstance(vid_res[i], "ContainerError") =>
                /\ failure_logged(i)
                /\ i < Len(vid_res) => fetched(i + 1)

\* C11: in an MKV run, a file of the final name that this run made is the
\* temporary file moved after write_to_file returned and the file was
\* closed: it is complete, the temporary is gone and no longer open.  So a
\* run in which the write raised, or that was stopped while writing, leaves
\* no file of the final name.
C11_MovedOnlyWhenWritten ==
    (fd_cfg.mode = "fetch" /\ fd_cfg.make_mkv /\ ~fd_cfg.final_before
        /\ fd_fs["final"] # "none")
    => /\ fd_fs["final"] = "complete"
       /\ fd_fs["mkv.tmp"] = "none"
       /\ "mkv.tmp" \notin fd_open
       /\ fd_pc \in {"unlink", "returned", "raised", "killed"}
       /\ fd_err \in {"", "UnboundLocalError"}

C11_Witness ==
    /\ fd_cfg.mode = "fetch" /\ fd_cfg.make_mkv /\ ~fd_cfg.final_before
    /\ fd_pc = "returned"
    /\ fd_fs["final"] = "complete"

\* C13: when fetch_data is left, by return or by an exception, none of the
\* output files it opened (the MKV temporary, the .ass files) is open.
C13_OutputFilesClosed ==
    fd_pc \in {"returned", "raised"} => fd_open \cap OutputFiles = {}

\* The last plen bytes of the local file fetch_video found
local_tail == SubSeq(dl_cfg.local, Len(dl_cfg.local) - plen + 1,
                     Len(dl_cfg.local))

\* The first plen bytes the server sends for the range asked for
response_head ==
    res_read(response_body(dl_cfg, Len(dl_cfg.local) - plen), plen)

\* C12: on a local file of more than 128 and fewer than content_length
\* bytes fetch_video asks for the range that starts 128 bytes before the
\* end of the file; while the resume is in effect (the server answered 206)
\* the file is changed only by appending, and only when the first 128 bytes
\* of the response equal the last 128 local bytes; when they differ the
\* call raises and leaves the file as it was; and the call returns only
\* with a file of content_length bytes.
C12_ResumeChecksTail ==
    dl_cfg.mode = "fetch" =>
        /\ (Len(dl_cfg.local) > plen /\ Len(dl_cfg.local) < dl_cfg.content_length
                /\ dl_pc \notin {"open", "request"})
           => dl_req.range = Len(dl_cfg.local) - plen
        /\ (dl_req.prefix_data # <<>> /\ dl_file # dl_cfg.local)
           => /\ response_head = local_tail
              /\ Len(dl_file) > Len(dl_cfg.local)
              /\ SubSeq(dl_file, 1, Len(dl_cfg.local)) = dl_cfg.local
        /\ (dl_req.prefix_data # <<>> /\ response_head # local_tail
                /\ dl_pc \notin {"request", "prefix"})
           => dl_pc = "raised" /\ dl_file = dl_cfg.local
        /\ dl_pc = "returned" => Len(dl_file) = dl_cfg.content_length

C12_Witness ==
    /\ dl_pc = "returned"
    /\ Len(dl_cfg.local) > plen
    /\ dl_req.prefix_data = local_tail
    /\ dl_file # dl_cfg.local
    /\ dl_file = RemoteData(dl_cfg.content_length)

\* C14 as stated: the signed value -1 is encoded as the single byte 0xBF, and
\* the single byte 0xBF decodes, signed, to (-1, 1).
C14_MinusOneIsBF ==
    /\ (vi_pc = "encoded" /\ vi_signed /\ vi_val = PyInt(-1)) =>
           vi_bd = <<191>>
    /\ (vi_pc = "parsed" /\ vi_signed /\ vi_bd = <<191>>) =>
           vi_dec = [err |-> "", val |-> PyInt(-1), len |-> 1]

\* C14: with the bias 2^(payload_bits - 1) - 1 = 63 of a one-byte signed
\* VInt, the signed value -1 is encoded as the single byte 0xBE, the single
\* byte 0xBE decodes, signed, to (-1, 1), and the single byte 0xBF decodes,
\* signed, to (0, 1).
C14_MinusOneIsBE ==
    /\ (vi_pc \in {"encoded", "decoded"} /\ vi_signed /\ vi_val = PyInt(-1)) =>
           vi_bd = <<190>>
    /\ (vi_pc = "decoded" /\ vi_signed /\ vi_val = PyInt(-1)) =>
           vi_dec = [err |-> "", val |-> PyInt(-1), len |-> 1]
    /\ (vi_pc = "parsed" /\ vi_signed /\ vi_bd = <<190>>) =>
           vi_dec = [err |-> "", val |-> PyInt(-1), len |-> 1]
    /\ (vi_pc = "parsed" /\ vi_signed /\ vi_bd = <<191>>) =>
           vi_dec = [err |-> "", val |-> PyInt(0), len |-> 1]

\* C14 witness: the signed value -1 was encoded and the byte decoded again
C14_Witness ==
    /\ vi_pc = "decoded"
    /\ vi_signed
    /\ vi_val = PyInt(-1)
    /\ Len(vi_bd) = 1

\* The targets of the form 128^i + i
PadTargets == { Pow(2, 7 * i) + i : i \in 1..4 }

\* C15: for every target length n >= 2, Void.new_by_size(n) returns a Void
\* whose get_size() is n and whose write_to_file writes exactly n bytes, the
\* size field of which announces the body that follows it; the size field
\* is one byte longer than the minimal size field of the body exactly when
\* n has the form 128^i + i, and minimal otherwise.
C15_VoidHasExactSize ==
    vo_full_size >= 2 =>
        /\ vo_pc \in {"target", "made", "written"}
        /\ vo_pc \in {"made", "written"} =>
              /\ get_size(vo_void) = vo_full_size
              /\ vo_void.bd_size_size = vsize(Len(vo_void.data))
                    + (IF vo_full_size \in PadTargets THEN 1 ELSE 0)
        /\ vo_pc = "written" =>
              /\ Len(vo_out) = vo_full_size
              /\ ReadHeader(vo_out).ok
              /\ ReadHeader(vo_out).type = PyInt(ID.Void)
              /\ ReadHeader(vo_out).size_len = vo_void.bd_size_size
              /\ 1 + ReadHeader(vo_out).size_len + PyVal(ReadHeader(vo_out).size)
                    = vo_full_size

\* C15 witness: a Void of 16386 bytes was made and written, its size field
\* padded to three bytes
C15_Witness ==
    /\ vo_pc = "written"
    /\ vo_full_size = 16386
    /\ vo_void.bd_size_size = 3
    /\ Len(vo_void.data) = 16382

\* The blocks written, in file order, each with its track number and its
\* absolute timecode
emitted_blocks(clusters) ==
    Concat(List([k \in 1..Len(clusters) |->
        LET bl == cluster_blocks(clusters[k])
        IN  List([i \in 1..Len(bl) |->
                [tn |-> bl[i].tracknum,
                 tc |-> cluster_timecode(clusters[k]) + bl[i].timecode]])]))

\* C16: the blocks of a written file follow each other in ascending order
\* of absolute timecode, and of two neighbouring blocks with the same
\* timecode the one of the track with the smaller number comes first, also
\* when sort_tracks renumbered the tracks before the file was written.
C16_SmallerTrackFirstOnTie ==
    mk_pc = "written" =>
        LET bl == emitted_blocks(mk_out.clusters)
        IN  \A i \in 1..(Len(bl) - 1) :
                \/ bl[i].tc < bl[i + 1].tc
                \/ bl[i].tc = bl[i + 1].tc /\ bl[i].tn <= bl[i + 1].tn

\* C17: the blocks of each track of a written file follow each other in
\* non-decreasing order of absolute timecode, whatever frames the FLV and
\* MP4 demuxers handed over for the track.
C17_TrackBlocksAscending ==
    mk_pc = "written" =>
        LET bl == emitted_blocks(mk_out.clusters)
        IN  \A i \in 1..Len(bl) : \A j \in (i + 1)..Len(bl) :
                bl[i].tn = bl[j].tn => bl[i].tc <= bl[j].tc

\* The blocks written for track tn, in file order
track_blocks(clusters, tn) ==
    SelectSeq(Concat(List([k \in 1..Len(clusters) |->
                              cluster_blocks(clusters[k])])),
              LAMBDA e : e.tracknum = tn)

\* C18: when the builder, its lace mask allowing fixed-size lacing, writes
\* an audio track of three frames of 100 bytes and equal duration, the
\* write succeeds and the track has one block, which uses fixed-size
\* lacing and carries the three payloads in order.
C18_EqualFramesFixedLaced ==
    (/\ mk_cfg.mode = "equal"
     /\ has_fixed(mk_cfg.lace_mask)
     /\ mk_pc # "building"
     /\ dict_has(mk_frames, 1)
     /\ Len(dict_get(mk_frames, 1)) = 3) =>
        /\ mk_pc = "written"
        /\ LET bl == track_blocks(mk_out.clusters, 1)
           IN  /\ Len(bl) = 1
               /\ bl[1].lace_data.LT = _MATROSKA_LT_FIXED
               /\ bl[1].frame_data = frame_data_of(dict_get(mk_frames, 1))

\* A tag description without a flaw, of a tag the loop of make_mkvb takes
CleanTag(d) ==
    d.size_d = 0 /\ d.post_d = 0 /\ d.cut = 0 /\ d.kind \in {"", "ecma", "strict"}

\* The index of the first tag of ds that is not clean, 0 when all are
FirstFlawed(ds) ==
    IF \A i \in 1..Len(ds) : CleanTag(ds[i]) THEN 0
    ELSE CHOOSE i \in 1..Len(ds) :
             ~CleanTag(ds[i]) /\ \A j \in 1..(i - 1) : CleanTag(ds[j])

\* The first flaw of the file is a script value that runs past the end of
\* its tag body, a post-tag size that differs from the tag size, or the
\* body size of the last tag running past the end of the data
FlawedTag(ds, i) ==
    /\ i > 0
    /\ \/ ds[i].cut > 0
       \/ ds[i].size_d = 0 /\ ds[i].post_d # 0
       \/ ds[i].size_d > 0 /\ i = Len(ds)

\* The file is malformed in one of the four ways
Malformed(cfg) ==
    cfg.sig # <<70, 76, 86>> \/ FlawedTag(cfg.tags, FirstFlawed(cfg.tags))

\* C19: a run of the FLV reader on a file with a wrong signature, with a
\* body size running past the end of the data, with a post-tag size that
\* differs from the tag size or with a script value running past the end
\* of its tag body ends with FLVParserError or ASParserError: with no
\* other exception, and not with the file parsed.
C19_MalformedIsParseError ==
    (/\ fl_cfg.mode = "flv"
     /\ Malformed(fl_cfg)
     /\ fl_pc \notin {"header", "tags"}) =>
        fl_pc \in {"FLVParserError", "ASParserError"}

\* Every frame added to the builder has timecode 0
all_frames_zero(frames) ==
    \A i \in 1..Len(frames) : \A j \in 1..Len(frames[i].val) :
        frames[i].val[j].tc = 0

\* C20: when bc_old_mplayer is set and a file with frames was written, the
\* first cluster has the least frame timecode t as its base timecode, a
\* block of the first cluster carries the frame of timecode t, and no
\* block of the first cluster stores a negative timecode, for each of the
\* cluster lengths (5000 ticks at scale 1000000, 65536 at scale 62500);
\* frames that all have timecode 0 give one cluster of base timecode 0.
C20_FirstClusterAligned ==
    (/\ mk_cfg.mode = "time"
     /\ mk_cfg.bc_old_mplayer
     /\ mk_pc = "written"
     /\ \E i \in 1..Len(mk_frames) : mk_frames[i].val # <<>>) =>
        LET bl == cluster_blocks(mk_out.clusters[1])
        IN  /\ cluster_timecode(mk_out.clusters[1]) = frame_tc_min(mk_frames)
            /\ \E i \in 1..Len(bl) : bl[i].timecode = 0
            /\ \A i \in 1..Len(bl) : bl[i].timecode >= 0
            /\ all_frames_zero(mk_frames) =>
                   /\ Len(mk_out.clusters) = 1
                   /\ cluster_timecode(mk_out.clusters[1]) = 0

\* The frame of the builder's frame lists that a block thing was built
\* for: the frame of the block's track whose payload comes first in it
first_frame(frames, bt) ==
    LET fl == dict_get(frames, block_of(bt).tracknum)
    IN  fl[CHOOSE j \in 1..Len(fl) : fl[j].data_r = block_of(bt).frame_data[1]]

\* The values of the ReferenceBlock children of a BlockGroup, in order
reference_blocks(bt) ==
    LET rs == SelectSeq(bt.sub, LAMBDA e : e.type = ID.ReferenceBlock)
    IN  List([i \in 1..Len(rs) |-> rs[i].ival])

\* The BlockGroup bt carries a Block, the back-references deps and the
\* duration dur, and nothing else
is_block_group(bt, deps, dur) ==
    /\ bt.type = ID.BlockGroup
    /\ Len(bt.sub) = Len(deps) + 2
    /\ reference_blocks(bt) = deps
    /\ \E i \in 1..Len(bt.sub) :
           bt.sub[i].type = ID.BlockDuration /\ FromBig(bt.sub[i].uval) = dur
    /\ \E i \in 1..Len(bt.sub) : bt.sub[i].type = ID.Block

\* The block things of all clusters written
written_blockthings(clusters) ==
    Concat(List([k \in 1..Len(clusters) |-> cluster_blockthings(clusters[k])]))

\* C21 as stated: a block thing built for a keyframe, or for a frame
\* without back-reference and without duration, is a SimpleBlock; for any
\* other frame it is a BlockGroup with the Block, a ReferenceBlock per
\* back-reference and, when the frame has a duration, a BlockDuration.
C21_SimpleBlockForKeyframe ==
    mk_pc = "written" =>
        \A i \in 1..Len(written_blockthings(mk_out.clusters)) :
            LET bt == written_blockthings(mk_out.clusters)[i]
                fr == first_frame(mk_frames, bt)
            IN  IF is_keyframe(fr) \/ (fr.tc_dependencies = <<>> /\ fr.dur = None)
                THEN bt.type = ID.SimpleBlock
                ELSE /\ bt.type = ID.BlockGroup
                     /\ reference_blocks(bt) = fr.tc_dependencies
                     /\ fr.dur # None =>
                            \E j \in 1..Len(bt.sub) :
                                /\ bt.sub[j].type = ID.BlockDuration
                                /\ FromBig(bt.sub[j].uval) = fr.dur

\* C21 amended: a block thing built for a frame without duration is a
\* SimpleBlock whose keyframe flag tells whether the frame is a keyframe;
\* for a frame with a duration it is a BlockGroup with the Block, one
\* ReferenceBlock per back-reference holding the delta to the predecessor
\* (none for a keyframe) and the BlockDuration.
C21_SimpleBlockWithoutDuration ==
    mk_pc = "written" =>
        \A i \in 1..Len(written_blockthings(mk_out.clusters)) :
            LET bt == written_blockthings(mk_out.clusters)[i]
                fr == first_frame(mk_frames, bt)
            IN  IF fr.dur = None
                THEN /\ bt.type = ID.SimpleBlock
                     /\ bt_is_keyframe(bt) = is_keyframe(fr)
                ELSE is_block_group(bt, fr.tc_dependencies, fr.dur)

\* C21 witness: a written file with a BlockGroup built for a keyframe and
\* a SimpleBlock built for a frame that has a back-reference
C21_Witness ==
    /\ mk_pc = "written"
    /\ \E i \in 1..Len(written_blockthings(mk_out.clusters)) :
           LET bt == written_blockthings(mk_out.clusters)[i]
           IN  /\ bt.type = ID.BlockGroup
               /\ is_keyframe(first_frame(mk_frames, bt))
    /\ \E i \in 1..Len(written_blockthings(mk_out.clusters)) :
           LET bt == written_blockthings(mk_out.clusters)[i]
           IN  /\ bt.type = ID.SimpleBlock
               /\ ~is_keyframe(first_frame(mk_frames, bt))

\* The frames of the builder's frame lists whose payloads the block b
\* holds, in the order of the payloads
block_frames(frames, b) ==
    LET fl == dict_get(frames, b.tracknum)
    IN  List([p \in 1..Len(b.frame_data) |->
            fl[CHOOSE j \in 1..Len(fl) : fl[j].data_r = b.frame_data[p]]])

\* The blocks of all clusters written, in file order
written_blocks(clusters) ==
    Concat(List([k \in 1..Len(clusters) |-> cluster_blocks(clusters[k])]))

cue_positions(cues) ==
    LET cps == SelectSeq(cues.sub, LAMBDA e : e.type = ID.CuePoint)
    IN  Concat(List([i \in 1..Len(cps) |->
            LET ctps == SelectSeq(cps[i].sub,
                                  LAMBDA e : e.type = ID.CueTrackPositions)
            IN  List([j \in 1..Len(ctps) |->
                    [time |-> FromBig(get_sub_by_cls(cps[i], ID.CueTime).uval),
                     track |-> FromBig(get_sub_by_cls(ctps[j], ID.CueTrack).uval),
                     pos |-> FromBig(get_sub_by_cls(ctps[j],
                                         ID.CueClusterPosition).uval),
                     block |-> FromBig(get_sub_by_cls(ctps[j],
                                           ID.CueBlockNumber).uval)]])]))

\* Cue entry ce names frame fr of track tn: its time is the frame's
\* timecode, and the block thing at its block index in the cluster written
\* at its position is of the track and holds the frame's payload
cue_names_frame(ce, tn, fr) ==
    /\ ce.time = fr.tc
    /\ ce.track = tn
    /\ \E k \in 1..Len(mk_out.clusters) :
           LET bts == cluster_blockthings(mk_out.clusters[k])
           IN  /\ mk_out.clust_offs[k] = ce.pos
               /\ ce.block + 1 \in 1..Len(bts)
               /\ block_of(bts[ce.block + 1]).tracknum = tn
               /\ \E p \in 1..Len(block_of(bts[ce.block + 1]).frame_data) :
                      block_of(bts[ce.block + 1]).frame_data[p] = fr.data_r

\* The keyframe at place j of the track at place i of the frame lists has
\* a cue entry that names it
keyframe_has_cue(i, j) ==
    \E n \in 1..Len(cue_positions(mk_out.cues)) :
        cue_names_frame(cue_positions(mk_out.cues)[n], mk_frames[i].key,
                        mk_frames[i].val[j])

\* C23: once the file is written, every keyframe of every track with
\* make_cues set has a CuePoint whose CueTime is the keyframe's timecode
\* with a CueTrackPositions that names the track, the cluster holding the
\* keyframe and the index of its block in that cluster, tracks with lacing
\* included.
C23_CueForEveryKeyframe ==
    mk_pc = "written" =>
        \A i \in 1..Len(mk_frames) :
            mk_tracks[mk_frames[i].key].make_cues =>
                \A j \in 1..Len(mk_frames[i].val) :
                    is_keyframe(mk_frames[i].val[j]) => keyframe_has_cue(i, j)

\* write_to_file got as far as the second pass of the Cues
second_pass_ran == mk_pc \notin {"idle", "building"} /\ mk_out # NoOut

\* The bytes the Cues of the second pass leave of those reserved for it in
\* the first pass
cues_leftover == mk_out.cues_sz_base - get_size(mk_out.cues)

\* C24: whenever write_to_file reaches the second pass, the Cues written
\* there is not larger than the size reserved in the first pass and the
\* leftover is not 1 byte; the call ends without an error, a leftover
\* above 0 is taken by a Void of exactly that size written right after the
\* Cues, and every cluster lies at the offset recorded in the first pass.
C24_CuesFitReservedSize ==
    second_pass_ran =>
        /\ cues_leftover >= 0
        /\ cues_leftover # 1
        /\ mk_pc = "written"
        /\ cues_leftover > 0 =>
               /\ mk_out.void.cls = "void"
               /\ get_size(mk_out.void) = cues_leftover
               /\ written_at(mk_out.f, mk_out.cue_off + get_size(mk_out.cues),
                             mk_out.void)
        /\ \A k \in 1..Len(mk_out.clusters) :
               written_at(mk_out.f, mk_out.seg_off + mk_out.clust_offs[k],
                          mk_out.clusters[k])

\* C24 witness: a written file whose Cues has two entries at least and gave
\* up more bytes than the 2 of the Void child of the first pass
C24_Witness ==
    /\ mk_pc = "written"
    /\ Len(cue_entries(mk_out.cues)) >= 2
    /\ cues_leftover > 2
    /\ get_size(mk_out.void) = cues_leftover

\* The composition time offset field of the AVC tag: the three bytes before
\* its payload, as an unsigned number
ct_field(f, tag) == be_uint(SubSeq(f, tag.off - 2, tag.off))

\* C25: for an AVC video tag taken into the video stream the timecode of
\* its frame is the tag timestamp plus the composition time offset field
\* read as a signed 24 bit number: for a negative offset it is below the
\* tag timestamp by the magnitude of the offset.
C25_SignedCompositionOffset ==
    (fl_cfg.mode = "body" /\ fl_vd.last # <<>>) =>
        LET tag == fl_vd.last[1]
            u == ct_field(fl_f, tag)
        IN  IF u < 8388608
            THEN FLVVideoData_get_ts(tag) = ToBig(tag.ts + u)
            ELSE /\ BigLess(FLVVideoData_get_ts(tag), ToBig(tag.ts))
                 /\ BigAdd(FLVVideoData_get_ts(tag), ToBig(16777216 - u))
                        = ToBig(tag.ts)

\* The sample rates by index as the FLV format names them, in Hz: 5.5, 11,
\* 22 and 44 kHz
nominal_rates == <<5500, 11000, 22000, 44000>>

\* The flag byte of an audio tag: the first byte of its body
audio_flags(f, tag) == f[IF tag.pt = None THEN tag.off ELSE tag.off - 1]

\* C26: the sample frequency of an audio tag taken into the audio stream,
\* and the one kept for the audio track, is the rate of the tag's 2 bit
\* sample rate index: 5.5, 11, 22 or 44 kHz, whatever the sample size bit
\* and the channel bit are.
C26_SampleRateByIndex ==
    (fl_cfg.mode = "body" /\ fl_ad.last # <<>>) =>
        LET tag == fl_ad.last[1]
            idx == (audio_flags(fl_f, tag) \div 4) % 4
        IN  /\ tag.sample_freq = nominal_rates[idx + 1]
            /\ fl_ad.sfreq = nominal_rates[idx + 1]

\* The samples per chunk of chunk k (from 1) by the stsc entries: those of
\* the last entry whose first chunk is not after k
chunk_spc(stsc, k) ==
    stsc[CHOOSE i \in 1..Len(stsc) :
            /\ stsc[i].fc <= k
            /\ \A j \in 1..Len(stsc) : stsc[j].fc <= k => j <= i].spc

\* The index (from 0) of the first sample of chunk k
chunk_first(stsc, k) == SumSeq(List([j \in 1..(k - 1) |-> chunk_spc(stsc, j)]))

\* The chunk (from 1) that holds sample s (from 0)
chunk_of(stsc, s) ==
    CHOOSE k \in 1..(s + 1) :
        chunk_first(stsc, k) <= s /\ s < chunk_first(stsc, k) + chunk_spc(stsc, k)

\* The file offset of sample s: the offset of its chunk, from stco or
\* without an stco from co64, plus the sizes of the samples before it in
\* the chunk
sample_off(trak, s) ==
    (IF trak.stco.present THEN trak.stco.entry_data
     ELSE trak.co64.entry_data)[chunk_of(trak.stsc, s)]
    + SumSeq(List([j \in 1..(s - chunk_first(trak.stsc, chunk_of(trak.stsc, s))) |->
                 get_ss(trak.stsz,
                        chunk_first(trak.stsc, chunk_of(trak.stsc, s)) + j - 1)]))

\* The samples yielded so far are the first samples of the track in index
\* order, each with its size and file offset
samples_in_place ==
    \A i \in 1..Len(mp_out) :
        /\ mp_out[i].size = get_ss(mp_trak.stsz, i - 1)
        /\ mp_out[i].off = sample_off(mp_trak, i - 1)

\* C27: get_sample_data raises nothing, with an stco table or with a co64
\* table only; sample s is yielded as the (s+1)-th, with the offset of its
\* chunk by the stsc runs plus the sizes of the earlier samples of that
\* chunk, and when the generator ends it has yielded all N samples.
C27_SampleOffsetsByChunk ==
    mp_pc # "idle" =>
        /\ mp_pc \in {"created", "yielded", "done"}
        /\ samples_in_place
        /\ mp_pc = "done" => Len(mp_out) = mp_trak.stsz.elnum

\* The make_style calls that returned a style
style_calls == SelectSeq(st_calls, LAMBDA c : c.err = "")

\* C28: after any sequence of make_style calls two calls with equal value
\* tuples returned the same style object with the same name, two calls
\* with different tuples returned different names, and the stored styles
\* are named Style0, Style1, ... in the order of their insertion, the
\* counter being the number of stored styles.
C28_StylesDeduplicated ==
    /\ \A a, b \in 1..Len(style_calls) :
           IF style_calls[a].key = style_calls[b].key
           THEN style_calls[a].rv = style_calls[b].rv
           ELSE style_calls[a].rv.name # style_calls[b].rv.name
    /\ \A i \in 1..Len(st_styles) :
           st_styles[i].val.name = <<"Style">> \o format_d(i - 1)
    /\ st_style_i = Len(st_styles)
    /\ \A a \in 1..Len(style_calls) :
           dict_has(st_styles, style_calls[a].key)
               /\ dict_get(st_styles, style_calls[a].key) = style_calls[a].rv

\* C28 witness: two styles are stored, a call failed, and a later call with
\* the tuple of the first style returned the first style object and not
\* the one it built
C28_Witness ==
    /\ Len(st_styles) = 2
    /\ \E a, b \in 1..Len(st_calls) :
           /\ a < b
           /\ st_calls[a].err # ""
           /\ st_calls[b].err = ""
           /\ st_calls[b].rv = st_styles[1].val
           /\ st_calls[b].rv.id < st_objs

\* new_by_size has returned or raised
search_over == vo_pc \in {"made", "MatroskaError"}

\* C29: for every full_size from 0 on the search loop of new_by_size comes
\* to an end; it ends with MatroskaError when full_size is below 2, and a
\* Void it returns has exactly the size full_size.
C29_SearchTerminates ==
    /\ <>search_over
    /\ [](vo_pc \in {"target", "search", "made", "MatroskaError"})
    /\ []((search_over /\ vo_full_size < 2) => vo_pc = "MatroskaError")
    /\ [](vo_pc = "made" => get_size(vo_void) = vo_full_size)

\* C29 witness: the search returned a Void after it had tried another body
\* size first
C29_Witness ==
    /\ vo_pc = "made"
    /\ Cardinality(vo_bd_sz_set) >= 2
    /\ get_size(vo_void) = vo_full_size

\* The PrevSize a written cluster carries, None when it has no such child
cluster_prev_size(c) ==
    IF get_sub_by_cls(c, ID.PrevSize).cls = "none" THEN None
    ELSE FromBig(get_sub_by_cls(c, ID.PrevSize).uval)

\* C30: once the file is written, every cluster after the first has a
\* PrevSize child whose value is the number of bytes the cluster before it
\* takes in the file, with all the blocks that cluster holds in the end;
\* the first cluster has none.
C30_PrevSizeOfClusterBefore ==
    mk_pc = "written" =>
        /\ \A k \in 2..Len(mk_out.clusters) :
               /\ cluster_prev_size(mk_out.clusters[k])
                      = Len(write_to_file(mk_out.clusters[k - 1]))
               /\ cluster_prev_size(mk_out.clusters[k])
                      = mk_out.clust_offs[k] - mk_out.clust_offs[k - 1]
        /\ Len(mk_out.clusters) >= 1 =>
               cluster_prev_size(mk_out.clusters[1]) = None

\* C30 witness: a file was written with a third cluster after a second one
\* of blocks, and with two clusters of different sizes
C30_Witness ==
    /\ mk_pc = "written"
    /\ Len(mk_out.clusters) >= 3
    /\ Len(cluster_blocks(mk_out.clusters[2])) >= 1
    /\ cluster_prev_size(mk_out.clusters[3])
           = Len(write_to_file(mk_out.clusters[2]))
    /\ \E k \in 3..Len(mk_out.clusters) :
           cluster_prev_size(mk_out.clusters[k])
               # cluster_prev_size(mk_out.clusters[2])

====
